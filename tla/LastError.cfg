SPECIFICATION Spec
CONSTANTS
    Thread = {t1, t2}
    Error = {0, 1, 2}
    Zero = 0
    MaxDepth = 2
INVARIANT TypeOK
PROPERTIES SeparateErrors
