# DragonFFI in TLA+

DragonFFI is a foreign function interface built on clang and LLVM: a program
hands it C text, and gets back the types and the functions of that text, to call
at run time. This directory models the parts of it that keep state, checks them
with TLC on small instances, and proves the most important facts with TLAPS for
every value of the constants.

Paths below are relative to `src/`.

## 1. Inventory

### Components

| component | state | operations | where |
|---|---|---|---|
| type context | four maps from the structure of a type to the one object that represents it | `getBasicType`, `getPtrType`, `getArrayType`, `getFunctionType` | `lib/dffictx.{h,cpp}`, `include/dffi/types.h` |
| engine | an in-memory file system, a buffer of diagnostics, clang's language options, two counters, two maps from function types to wrapper numbers, the compilation units, the JIT | `compile`, `cdef`, `getFunction` (with and without variadic arguments), `getWrapperLLVM` | `lib/dffi_impl.{h,cpp}`, `lib/dffi_api.cpp` |
| forced declarations | the aliases and declarations one AST pass collects | `HandleTopLevelDecl` | `lib/dffi_impl_clang.cpp` |
| native calls and the last error | per thread `errno` and `dffi_errno` | `NativeFunc::call`, `setLastError`, `getLastError` | `lib/dffi_api.cpp`, `lib/dffi_api_*.inc` |
| Python objects | wrappers of engines, units, types, C objects; who keeps whom alive | every binding that returns an object | `bindings/python/pydffi.cpp`, `cobj.{h,cpp}` |
| composite types | a unit's structures, unions, enumerations and aliases, read from debug info in passes | `declareDIComposite`, `parseDIComposite`, `getTypeFromDIType`, `inlineCompositesAnonymousMembers` | `lib/dffi_impl.cpp`, `lib/anon_member_inliner.cpp` |
| type printer | the types named, declared and forward-declared in one text of wrappers | `print_def`, `add_decl`, `add_forward_decl`; `genFuncTypeWrapper`, `compileWrappers` | `lib/types_printer.{h,cpp}`, `lib/dffi_impl.cpp` |
| calls from Python | temporaries of the calls in progress | `CFunction::call`, `CVarArgsFunction::call`, `ConvertArgs` | `bindings/python/cobj.cpp`, `dispatcher.h` |
| buffers and formats | none | `getFormatDescriptor`, `getPortableFormatDescriptor`, `MDArray::fromArrayTy`, `getBufferInfo` | `bindings/python/cobj.cpp`, `lib/dffi_types.cpp` |
| the rest | none of its own | clang driver set-up, resource files, calling conventions, the ctypes generator, casting and iterator templates, vendored pybind11 | |

### How they interact

The host calls the engine directly (C++) or through the Python bindings. The
engine asks the type context for every type it meets, and type objects live as
long as the engine. `compile` writes the text to the in-memory file system, runs
clang once (`compile`) or twice (`cdef`: a pass over the AST collects
declarations, a second pass compiles the text completed with them), reads types
and functions from the debug info, links the module into the JIT and compiles
the missing call wrappers, which are themselves C texts compiled by the same
clang instance under other language options. A function is a `NativeFunc`, the
pair of a code address and a wrapper; calling it swaps the error number of the
called code in and out. The text of a wrapper declares, through the type printer,
every structure and union the called function needs, and the process ends if
clang refuses it. A call from Python converts its arguments one by one, with
temporaries that end with the call, and native code may call back into Python.
Nothing in the library takes a lock: an engine is used
by one thread at a time. Only the last error is per thread. Nothing is
persisted, and there are no timeouts or messages.

### What is hard

* Interning goes through accessors that drop qualifiers in different places.
* Wrapper numbers come from one counter, used by two maps and two code paths.
* The variadic map keys on the *address* of the caller's array.
* Private files are only as fresh as the counter in their name, because
  `addFile` never replaces a file.
* Diagnostics, language options and symbols are shared by all compilations.
* Swaps of the error number nest when a called function calls back.
* The passes over the debug info look up each other's results, in an order the
  debug info and two hash maps decide.
* Types refer to themselves and to each other, and the printer must still bring
  their definitions into an order in which C accepts them, and come to an end.
* A conversion may raise after others have made temporaries, and calls nest
  through callbacks which may drop whatever the outer call was given.
* The count of variadic arguments is a subtraction in `size_t`.
* Python's `struct` module adds native alignment to the padding the library has
  already written into a format.
* A Python program may drop its references in any order; each object holds raw
  pointers into others, and keep-alive policies are easy to get wrong.

`PROJECT.json` lists each hazard with its line and the properties aimed at it.

### What makes each component correct

* Type context: asking for a type returns that type (`LookupSound`), always the
  same object (`Interned`), and different objects are different types
  (`UniqueByStructure`). Arrays of const elements are the exception, which the
  properties state exactly: no request finds one that exists.
* Engine: a wrapper number stands for one compiled wrapper, that of its type
  (`TypesHaveWrappers`, `WrapperIdsUnique`); a function is called through the
  wrapper of its own type and argument list (`TrampolineMatches`), compiled once
  (`CompiledOnce`), and is the code its unit defines (`CallsOwnDefinition`); a
  unit is made from the text given (`UnitsFaithful`), an error text from the
  failing call (`ErrorsAreOwn`).
* Last error: host and called code each see a register of their own
  (`SeparateErrors`, a refinement).
* Composite types: the types of a unit have the members C gives them
  (`MembersFaithful`), under the names C gives them (`NamesFaithful`); nothing is
  looked up before it is declared (`NoAbort`); alignments of types with nothing
  packed are not overstated (`AlignBounded`); a type that is finished stays as it is (`Settled`); and the
  passes come to an end (`CompileReturns`).
* Type printer: the text of wrappers compiles (`WrappersCompile`), defines
  nothing twice (`DefinedOnce`) and declares what it names (`TagsDeclared`); every
  wrapper a call sets out to make is made (`EveryWrapperMade`).
* Calls from Python: what native code gets is alive and in place
  (`ArgumentsAlive`), no writable pointer to const memory (`PointerConstKept`,
  for every way to pass a pointer but that of an array; `ConstKept`, with arrays,
  is violated), and what the wrapper reads (`WrapperFits`).
* Formats: the values are read where C keeps them (`PortableFaithful`,
  `NativeFaithful`, `BufferFaithful`).
* Python objects: what the program holds stays usable (`StillUsable`,
  `UnitsUsable`; the first for programs that keep to operations whose results keep
  enough), and what nobody can reach is destroyed (`NothingLeaks`).

## 2. Modules

| module | models | notes |
|---|---|---|
| `DFFICtx` | type context | `heap` is the sequence of type objects; each getter is an action: find by the map's own key comparison, or append. `TypePtr` and `QualType` model the tagged pointer. |
| `DFFICtx_proofs` | | theorems about `DFFICtx` |
| `DFFIImpl` | engine, forced declarations | one API call is one action. A source text is opaque; the constant `Prog` says what clang makes of it (does it compile, warn; what it defines, declares, redirects). |
| `MCDFFIImpl` | | a header, three libraries, a broken text, one with a warning, two with asm labels on functions they define |
| `DFFIImpl_proofs` | | theorems about `DFFIImpl` for any host, and for hosts that keep to conditions |
| `LastErrorAbs` | what the last error promises | each thread has a register per side, host and called code |
| `LastError` | `NativeFunc::call` and the swaps | `frames` is the stack of calls in progress; `callBegin` and `callEnd` are the two halves of `call`, with anything in between |
| `LastError_proofs` | | `LastError` implements `LastErrorAbs` |
| `CUTypes` | composite types, anonymous member inliner | the passes of `compile` over the debug info, one iteration a step; the debug info is a constant graph (`DI`), listed as LLVM's `DebugInfoFinder` does from roots in any order; the inliner's recursion is the stack `frames` |
| `MCCUTypes` | | the debug info of a C program with nested anonymous members, a self-referential structure, typedef chains, a tag and a typedef of one name, an incomplete type, a shadowed tag, and `packed` and `aligned` attributes |
| `CUTypes_proofs` | | theorems about `CUTypes` |
| `PyObjects`, `MCPyObjects` | lifetimes of Python objects | one action per binding, enabled if the program uses it (`Ops`, chosen at the start from the constant `Programs`); `keeps` is pybind11's table of patients; `Survivors` is reference counting |
| `PyObjects_proofs` | | theorems about `PyObjects` |
| `TypePrinter`, `MCTypePrinter` | type printer, text of wrappers | one step is one call of `print_def`, or the end of a definition; `frames` is the recursion of `add_decl`; `Decls_` the text; what C needs complete (`Mention`, `Object`) is defined on the types alone |
| `TypePrinter_proofs` | | theorems about `TypePrinter` |
| `PyCall`, `MCPyCall` | calls from Python | `stack` holds the calls in progress, `temps` their temporaries; the host acts when nothing is called or native code has called back |
| `PyCall_proofs` | | theorems about `PyCall` |
| `PyFormats`, `MCPyFormats` | buffers and formats | C declarations build types with clang's layout; formats are sequences of items, `Unpack` is the `struct` module; what the code computes by recursion over types is a function of the type's number |
| `PyFormats_proofs` | | theorems about `PyFormats` |

State and code keep their names where TLA+ allows: `VFS_`, `ErrorMsg_`,
`CUIdx_`, `WrapperIdx_`, `FuncTyWrappers_`, `VarArgsFuncTyWrappers_`, `CUs_` are
the members of `DFFIImpl`. `jitDefs` and `jitWrappers` are what the execution
engine has linked. `mem` is the host's memory, as far as the engine keeps
pointers into it. `map` in `PROJECT.json` gives the lines behind each definition.

Modelling decisions worth knowing:

* *Variadic map.* A `DenseMap` entry whose array has changed sits in the bucket
  of its old contents and compares equal by its new ones. Whether a probe meets
  it depends on hash values, so the model leaves it open: an entry that did not
  move is always found (`SureHits`), one that came to match may be
  (`PossibleHits`), and growth may move all entries (`InsertVarArgs`).
* *Fatal errors.* A wrapper that clang rejects ends the process; so does a
  failed assertion, in a build that has them. `status` records it and no action
  follows. The assertions that can fail are the two of `parseFunctionAlias`
  (`DefinedBefore`, `AliasTwice`) and the one of `getWrapperLLVM`;
  `engine_anyhost` has texts and calls that reach each of them.
* *Eager numbering.* Wrappers of a unit are numbered in the order of the
  module's functions, which the model leaves open (`Numberings`).
* *Attributes in `CUTypes`.* `packed` and `aligned` are part of the debug info
  nodes, for what the compiler does with them (`AlignInC`). `compile` never looks
  at them.
* *Types in `CUTypes`* are words in prefix notation (pointer, const, array,
  function, then a basic type or a reference into `CompositeTys_`), so that a
  type is compared without following references. What C says (`MembersInC`,
  `AlignInC`, `Underlying`) is defined on the debug info alone, apart from the
  code's tables.
* *Names.* Units named by the host are assumed not to have the names of the
  engine's private files (`/__dffi_private/...`).
* *pybind11.* A second request for a pointer returns the wrapper that exists,
  without applying `reference_internal`; classes returned by value are moved and
  `reference_internal` does nothing; `keep_alive` given to `def_property_readonly`
  is ignored. These rules are read from the vendored headers.
* *Values of Python objects* are left out of `PyObjects`: a pointer read from a field points
  nowhere in particular (`Nobody`), sizes and const checks do not appear, and an
  operation that returns `None` or raises changes nothing. An `FFI` object gives
  the basic, array and pointer types only (`FFITypes`,
  `bindings/python/pydffi.cpp:732-833`); structures, enumerations and functions
  come from a compilation unit.

## 3. Runs

| run | bounds | result |
|---|---|---|
| `ctx_api` | one basic kind, two array counts, two sets of function flags, at most one parameter, array elements const or not, three types | `LookupSound`, `Interned`, `UniqueByStructure` hold, whatever types are asked for |
| `engine_lazy` | three texts to compile, a header to `cdef`, two arrays, five private files, four wrappers, C++ engine | all eight engine properties hold for a host that reuses neither names nor arrays |
| `engine_anyhost` | eager wrappers, a signature whose wrapper is rejected, both last-error options, one array, four private files, four wrappers, warnings, asm labels, two texts under one name, LLVM wrappers of variadic functions | for any host: `TypesHaveWrappers`, `WrapperIdsUnique` |
| `engine_reused_array` | | **violation of `TrampolineMatches`** |
| `last_error` | two threads, three error numbers, calls nested two deep | `SeparateErrors`: refinement of `LastErrorAbs` |
| `py_objects` | one engine, five objects, two programs: the operations whose results keep what they use (`KeptOps`), and all others with what they need | `StillUsable` (which speaks of the first program), `NothingLeaks`, `UnitsUsable` |
| `cu_types` | the program of `MCCUTypes`: ten composite types and a shadowed one, three roots in any order, hash maps in any order | `NoAbort`, `MembersFaithful`, `NamesFaithful`, `AlignBounded`, `Settled`, `CompileReturns` |
| `type_printer` | the types of `MCTypePrinter`: four functions, one variadic, structures that refer to themselves, to each other, through arrays, unions and function pointers | `WrappersCompile`, `DefinedOnce`, `TagsDeclared`, `EveryWrapperMade` |
| `printer_variadic_struct` | a structure as an extra argument | **violation of `WrappersCompile`** |
| `py_call` | ten objects of every kind the conversion tells apart, five functions, two arguments, calls nested two deep, one object given up, one resize, 8-bit `size_t` | `ArgumentsAlive`, `PointerConstKept`, `WrapperFits` |
| `py_call_const_array` | the same | **violation of `ConstKept`** |
| `py_formats` | three scalar types (one without a letter), at most two members, three declared types, so up to three dimensions or levels; lengths zero and three, 12-bit `size_t` | `PortableFaithful`, `NativeFaithful`, `BufferFaithful` |

Why the bounds are enough to be interesting. A key comparison of the type
context relates two types and their parts, so two counts, two sets of flags, zero
or one parameter and the const bit reach every way in which two keys can differ. In the engine a stale
file needs two compilations under one number, a wrong wrapper two argument lists
and one array, a wrong definition two units: all fit. In the last error two
threads and a call inside a callback inside a call reach every order of swaps on
one thread, and threads share nothing. The longest chain of Python objects
before a dangling use is engine, unit, table, function or type, object: the five
objects of `py_objects`. The passes over the debug info relate a type to the ones inside it: two
levels of anonymous members, the inner one a union, and both orders of an outer
and an inner structure reach each way in which one pass can meet what another
has not done.

The printer's order can go wrong only between a type, one that has it by value
and one that points to it; all pairs among four composites, each reached by a
member, an array, a parameter and a result, are there. Two calls and two
arguments reach a conversion that raises after another has made temporaries, at
either depth, and a count that wraps around. Padding depends on two neighbours and on the end of the
structure: two members, nested three deep, have both at every level.

*Fairness.* The library has no scheduler, no queue and no background work. A call
runs to its end on the thread that made it, so the steps inside a call are taken
as long as there are any: `TypePrinter` assumes weak fairness of the steps of a
call to the engine, `CUTypes` of the steps of `compile`. Nothing is assumed of the
host, which is free to make no further call. The two liveness properties say that
the recursion of the printer and of the passes ends. Deadlock is checked where
something must always be able to go on (`last_error`, `cu_types`, `type_printer`,
`py_call`); elsewhere a host whose calls are bounded stops when it has made them.

### What the violations show

* `engine_reused_array`: a caller that overwrites its array of argument types can
  be given the wrapper of the old list: the map keeps the address of the array.
  `CVarArgsFunction::call` of the Python bindings passes a local vector, whose
  memory the allocator gives out again.
* `printer_variadic_struct`: `print_def` looks at the parameters of the function
  type, and at variadic arguments only in the wrapper itself, where a structure
  is first named and thus forward-declared. The wrapper, which reads it by value,
  does not compile and the process ends.
* `py_call_const_array`: an array of const elements is passed for a pointer to
  non-const. The conversion has a check for it that throws `ConstCastError`
  (`bindings/python/cobj.cpp:211`), as it has for pointers, but the element type
  it asks for comes through `ArrayType::getElementType` (`include/dffi/types.h:320`),
  which returns `Type const*`, and `CArrayObj::getElementType`
  (`bindings/python/cobj.h:465`) wraps it again without a qualifier. The check
  never fires, and native code is handed the array to write to. Array objects that
  carry a const flag of their own (`CObj::setConst`) are not checked either.

### Further observations

Each of these appears when a constant of a passing configuration is changed, or
a property made stronger as said:

* Without its exception for `ConstElements`, `Interned` fails: an array asked for
  with const elements, as the debug info reader does
  (`lib/dffi_impl.cpp:1087`), is never found again (`lib/dffictx.h:137` rebuilds
  the key from an accessor that drops const), and asking twice makes two types.
* `ReusesNames = TRUE` in `DFFIImpl_lazy.cfg`, with a second text in `CdefCode`
  (`adder`, say), breaks `UnitsFaithful`: `cdef` of another text under a name
  already used compiles the old text.
* In `engine_anyhost` the engine ends with `status = "assert"` in three ways.
  `getWrapperLLVM` of a variadic function ensures a wrapper in one map and looks
  for it in the other. A function with an asm label that the same text defines,
  given to `cdef` (`redirected`), has its alias recorded by the pass over the AST
  and again from the debug info (`lib/dffi_impl.cpp:1147`). And a function whose
  name in the source is the symbol of an earlier definition (`chain`) meets it in
  `FuncTys_` (`lib/dffi_impl.cpp:1146`).
* `"view_as_bytes"` added to `KeptOps` breaks `StillUsable`: `keep_alive<1,0>` makes
  the object keep the memoryview rather than the reverse.
* `ResizesPassed = TRUE` in `PyCall.cfg` breaks `ArgumentsAlive`: the conversion
  releases the `Py_buffer` it took the address from, and a callback that resizes
  the bytearray moves it under the running function
  (`bindings/python/cobj.cpp:247`).
* A member of function pointer type whose result is a structure that holds it
  (`struct B; typedef struct B make_t(void); struct A { make_t *make; };
  struct B { struct A a; };`) makes the printer define `B` before `A` when `A`
  comes first, and `WrappersCompile` fails.
* Packed structures are printed without their attribute, and their native format,
  unlike the portable one, does not lead to their members: hence `natural` in
  `NativeFaithful`.
* `CompileCode` with `warning` in `DFFIImpl_lazy.cfg` breaks `ErrorsAreOwn`:
  warnings of a compilation that succeeded stay in the buffer and come out with
  a later error (`lib/dffi_impl.cpp:310`).
* `CompileCode` with `adder` and `adder2` breaks `CallsOwnDefinition`: two units
  that define one name share one symbol (`lib/dffi_impl.cpp:662`).
* `"call"`, `"pointee"`, `"withConst"`, `"enum"`, `"iter"`, `"operator"`, `"obj"`,
  `"viewObjects"` or `"getValue"` added to `KeptOps` breaks `StillUsable`: none of
  these results keeps its engine or the bytes it uses. `"getValue"` makes the view
  of a field or an element, which does not keep the object it views
  (`bindings/python/cobj.cpp:561`).
* With `MaxFFI = 2`, and without the second conjunct of `KeepingProgram`,
  `StillUsable` fails through `cast` to a type of another engine.
* Without `InnerFirst` in `AlignBounded`, or with a structure of arrays in
  `MCDI`, alignments come out too small: the alignment of a field's type is read
  while that type may be opaque (`lib/dffi_impl.cpp:944`; debug info lists an
  outer type before an inner one), and `ArrayType` has no `getAlign` of its own.
* Without `~Packs(d)` in `AlignBounded`, alignments come out too large: the
  alignment of a structure is the largest of its members' whatever its attributes
  say (`lib/dffi_impl.cpp:944`), so a packed `{ char; int }` is stored with 4 where
  the compiler gives 1. An `aligned` attribute is ignored too, which errs on the
  other side.
* Without its condition on casts, `NothingLeaks` fails with more objects
  than `py_objects` has (the attempt to prove it found this): a pointer `p` to int is
  cast to an int `n`, which keeps `p`; the int type got from `n` keeps `n`; the
  pointer type made from that one is the type `p` already keeps, and now keeps the
  int type. The cycle `p`, pointer type, int type, `n` is not collected
  (`keep_alive` is invisible to Python's collector).
* A shadowed tag gets the members of whichever definition comes first: with `\A`
  for `\E` in `MembersFaithful` the run fails (`lib/dffi_impl.cpp:854`).
* A member whose type is a C++ class (`cxx`) breaks `NoAbort`: its null type is
  dereferenced (`lib/dffi_impl.cpp:944`).

## 4. Proofs

All proofs are for every value of the constants that satisfies the modules'
`ASSUME`s, which TLC evaluates on every run.

**`DFFICtx_proofs`.** `TypeCorrect`: type objects are built from older ones.
`LookupsSound`: no getter returns a type other than the one asked for.
`TypesInterned` (`Interned`): a type has one object, and the arrays of const
elements, which no request finds, are the one exception; whatever is asked for.
`ConstNeverFound` is about these: the key rebuilt from a stored array has lost its
const, so it equals no key with one. For all other objects comparison of keys is shown
to be equality on what the getters store, and the invariant is that of two stored
keys that match the younger one is an array of const elements. `TypesUnique` (`UniqueByStructure`) adds that two objects never
denote the same C type, at any depth of types inside types, if an array of const
elements is told apart by its address. What an object
denotes is a recursive function of it; the proof unfolds the function once
(`DenotesUnfolds`) and takes the oldest object that shares its meaning with an
older one: its parts are older still, so they are the same objects, and so is it.

**`LastError_proofs`.** `Implements`: `LastError` refines `LastErrorAbs` for any
set of threads and any depth. The mapping reads the register of a side from
`errno` when that side is running and from `dffi_errno` when it is not. It is
not preserved by itself: the end of a call must give control back to the side
that made it. The strengthening `CallersLinked` says that each call in progress
was made by the side that the call below it runs (theorem `Linked`).

**`DFFIImpl_proofs`.** `TypeCorrect`, `TypesWrapped` (`TypesHaveWrappers`) and
`IdsUnique` (`WrapperIdsUnique`) for any texts, options and host, eager or lazy.
`TypesHaveWrappers` is not inductive. A wrapper is compiled from the file that
the file system *holds*, and `addFile` keeps the first file of a name, so the
invariant must say that no wrapper file has a number `CUIdx_` has yet to reach.
`WrapperIdsUnique` needs every compiled wrapper's number to be below
`WrapperIdx_`. Both strengthenings are conjuncts of `WrappersOK`, and
`IInv == OthersTyped /\ WrappersOK`. There is one lemma per action (`ModuleStep`,
`CompileStep`, `DeclsStep`, `FunctionStep`, `VarArgsStep`, `LLVMStep`,
`WritesStep`), and lemmas for the helpers (`AddSourceFile`, `WrappersCompiled`,
`NewIds`, `WrapperForType`).

The other properties of the engine depend on the host, and each theorem names what it depends on (the observations above show that the
conditions are needed; `DFFIImpl_lazy.cfg` satisfies all of them):

| theorem | property | of the host or its texts |
|---|---|---|
| `UnitsAreOwn` | `UnitsFaithful` | no unit name is used twice |
| `ErrorsOwn` | `ErrorsAreOwn` | also, no text compiles with a warning |
| `CallsOwn` | `CallsOwnDefinition` | also, a name is defined in one text, and declared elsewhere as it is defined |
| `TrampolinesMatch` | `TrampolineMatches` | arrays of argument types are not overwritten |
| `WrappersCompiledOnce` | `CompiledOnce` | the same |

`FilesOwn` says what the in-memory files hold: a unit's file its own text, and no
private file a number `CUIdx_` has yet to reach. `OwnInv` adds that the units made
so far are own ones; `Outcome` is what one compilation can come to in such a
state, and the later proofs use it in place of the code. `Linked` relates the
symbols of the JIT to the units, and `VarArgsInv` every compiled wrapper to the
one map entry that numbers it.

**`PyCall_proofs`.** `TypeCorrect`, `ConstRespected` (`PointerConstKept`), `Fits`
(`WrapperFits`), and `ArgsAlive` (`ArgumentsAlive`) if the host does not resize a
buffer it has passed, for any objects, functions, numbers of arguments and depth
of nesting. The properties speak of calls that are in native code; the invariant
`IInv` says the same of every call and every argument converted so far
(`Converted`): it is passed as `Conv` says, the temporaries it needs exist, and
what it points to is where it was found. That a call's end takes no temporary of
another (`UnwindKeeps`) is by depth, and that a resized buffer is nobody's target
(`ResizeKeeps`) because a pointer leads to what was passed or to a C object.

**`PyObjects_proofs`.** `TypeCorrect`: only live objects keep others, and they
keep live ones. `UnitsStayUsable` (`UnitsUsable`) for any program.
`ObjectsStayUsable` (`StillUsable`) for a `KeepingProgram`: one that uses the
operations whose results keep what they use, and one engine if it casts. The
invariant `UsesKept` says that an object's chain of patients leads to everything
its C++ part points to; each binding is reduced to an object created with given
patients (`Creates`) or an existing one returned (`Returns`). `NoLeak`
(`NothingLeaks`) holds for any program, if types can be given levels such that a
pointer's level is one above its pointee's (`Leveled`, true of C types). Every
edge from an object to its patient descends in level or in age (`Ordered`), so
live objects that nobody holds would have a least one, which someone keeps.

**`TypePrinter_proofs`.** `TypeCorrect`, `NothingDefinedTwice` (`DefinedOnce`) and
`AllTagsDeclared` (`TagsDeclared`) for any program. What is in `Declared_` is
defined in the text or is a frame of the recursion, never both (`Once`), and names
are given to one type each (`OwnNames`). `TextsCompile` (`WrappersCompile`) needs
three hypotheses about the types, stated in `TypePrinter` and evaluated for the
program of `type_printer` (`ProgramInOrder` of `MCTypePrinter`): types nest finitely
(`NestedBy`), printing a member never needs a structure above it (`OrderedBy`: the
observation about function pointers is a program that breaks it), and a structure
passed in a variadic position is completed by the function's own signature
(`ArgumentsComplete`: the violation `printer_variadic_struct`). The invariant
`Orderly` says of each frame of the recursion that what its definition needs is
printed, or will be by items it still has to go through (`FrameOK`), and of the
text that each definition comes after those it needs (`DefsOK`). `StepsSplit`
reduces the printer's steps to six kinds.

**`CUTypes_proofs`.** Six theorems about any debug information, any order of its
nodes and any order of the loops over hash maps. The hypotheses are stated in
`CUTypes` and evaluated for the program of `cu_types` (`ProgramReadable` of
`MCCUTypes`):

| theorem | property | of the debug information |
|---|---|---|
| `TypeCorrect` | `TypeOK` | types refer to themselves only through structures and unions (`NestedBy`) |
| `TypesSettle` | `Settled` | the same |
| `CompileSucceeds` | `NoAbort` | also, what compile can read (`Readable`): no basic type of unknown size, no tag with the reserved prefix, members of object type, none of a C++ type or unknown encoding; and a tag is that of enumerations or of structures and unions in all scopes (`OneKind`) |
| `MembersAsInC` | `MembersFaithful` | also, anonymous members as C has them (`MembersNamed`): structures or unions without a tag, at a byte, finitely nested, no name twice |
| `NamesAsInC` | `NamesFaithful` | also, a typedef name stands for one structure in all scopes, whose tag is defined once (`NamesOwn`) |
| `AlignmentsBounded` | `AlignBounded` | as for `MembersAsInC`; also, member arrays have a known size, and member structures are complete and defined once (`Sized`), containing each other finitely (`Contained`) |

Without `OneKind`, an enumeration in a block whose tag is that of a structure
outside is looked up as that structure, and the cast of its elements fails;
without `Readable`, see the observation about C++ members. What a node's type is
depends on the types it derives from; `QualTypesUnfold` unfolds that function once,
and a type is shown to be a non-empty word over the letters for declared types
(`Typed`), which gives `TypeOK`. `Staged` says that a pass begins when the one
before it has ended. `Sound` explains why compile finds what it looks for: what a
listed node refers to is listed or still to be looked at (`Closed`), every listed
composite type that the first pass has gone through is declared (`AllPresent`),
and the number of a type without a name has not been given out before
(`AnonFresh`). For members the invariant is `Grown`. A type shows the fields of
one of its definitions as debug information has them until the inliner leaves it,
and those C gives to that definition from then on (`Filled`). Leaving a type is
right if its inner types were left before: `Chain` says that an inner type which
is not to be gone through any more has been left or is the next frame of the
recursion, and that the types entered are nested deeper and deeper, so that one
which was visited and is met again cannot be on the stack.

For names the invariant is `Named`: a name in the map of aliases has the type of a
registered typedef with that name (`AliasesOwn`), and a tagged type the kind of a
listed node with that tag (`KindFrom`). The chain from a typedef to its structure,
which compile follows type by type, is the one `Underlying` follows on the debug
information. For alignments it is `Aligned`: the alignment of a type that has
fields is at most that of one of its definitions, and equal to it if what it holds
was parsed before (`AllMeasured`). A field whose type is still opaque counts as
unaligned (`OpaqueUnaligned`), which keeps the bound and loses equality; attributes
are those of the type and of what is inside it (`AttributesIn`), where nothing is
packed, as the compiler's alignment is then at least the largest of the members'; that a
node is collected once (`Collects`) gives `InnerFirst` its order.

`MentionUnfolds`, `DenotesUnfolds`, `QualTypesUnfold`, `MembersUnfold`,
`UnderlyingUnfold`, `InsideUnfold` and `AlignUnfold` justify recursive functions, and
so do the lemmas of that name in the other modules. The library's theorem for this
takes an operator as a parameter, which the provers cannot instantiate, so these
lemmas construct the function on a growing part of its domain and argue by a least
counterexample.

**`PyFormats_proofs`.** `PortableFormatsAsInC` (`PortableFaithful`),
`NativeFormatsAsInC` (`NativeFaithful`) and `BuffersAsInC` (`BufferFaithful`) for any
scalar types, lengths, number of members and number of types. The assumptions on
the constants are those of the platform (`FormatAssumption`): the compiler refuses
objects of `SizeMax` bytes or more, and of two scalar alignments one is a multiple
of the other. The inductive invariant `LaidOut` says of every structure that its
members are earlier types, in order and without overlap, that they end within it
and, if no part is packed, that a member sits at a multiple of its alignment and the
structure's alignment is a multiple of the member's (`StructLaid`); of an array,
that its size is its length times that of its elements (`ArrayLaid`). It is where
the layout matters: `FinalPadding` subtracts in `size_t`, and would be almost
`SizeMax` bytes long if a member could end beyond its structure.

From there the argument is about formats. Reading two formats one after the other
joins what each finds, the second moved by the length of the first
(`UnpackConcat`); so the format of a structure finds the values of its members, each
from its offset on (`FieldsRead`, `StructRead`), and by induction on the number of a
type that of every type does (`Faithful`). For the native format, `Fits(f, base)`
says that every item of `f`, read portably from `base`, is already at a multiple of
its alignment; native and portable reading then agree (`FitsNative`), and types
without packed parts keep it (`FieldsFit`, with `MultipleOfMultiple` for members of
members). `BuffersFaithful` follows the levels of an array from the outside
(`LevelsExist`) and the strides from the inside. That declarations keep `LaidOut` is
`DeclareKeeps`, with `StructTypeFits`, `UnionTypeFits` and `ArrayTypeFits` for what
each makes.

Only model-checked: the two liveness properties, `EveryWrapperMade` and
`CompileReturns`, which are out of the prover's reach. Every safety property that a
passing run checks is a theorem, under the hypotheses given above.

## 5. Not modelled

* Sizes, enumerator values and array dimensions read from debug info. (An array of
  several dimensions keeps its first one, a flexible array member gets a count of
  2^64 - 1, and a K&R function pointer a null parameter: these are in the list of
  hazards, without a property.)
* Values of C objects: what getters, setters and the operators of basic objects
  compute, the const flags of objects made by casts and views, lengths of
  memoryviews. `PyObjects` has these operations as makers of objects.
* `None` as an argument, and buffers passed for `void *`: both end the process in
  the conversion.
* Declarators, calling conventions and qualifiers in the printed text.
* Bit-fields, which the library does not support, and flexible arrays in
  `PyFormats`.
* `dlopen` and `addSymbol`: they extend the process' symbols, a constant here
  (`HostSym`).
* Functions that never return and, in a C++ engine, mangled ones: `compile` skips
  them, and `Prog` lists only what it exposes.
* The clang driver set-up, resource files, calling conventions, the ctypes
  generator and templates taken over from LLVM: no state of their own.
* macOS and Windows variants of the last error: the same swaps on another
  register. Named units are refused on Windows, which the model leaves out.

## 6. Plan

1. *Done:* type context, engine, last error, composite types, Python lifetimes,
   type printer, calls from Python, formats; theorems about all of them.
2. *Composition:* function types of a unit in `CUTypes`, asked from `DFFICtx`; the
   list of names a type carries, which all units of an engine share.
3. *Sizes* in `CUTypes`: array dimensions and counts modulo 2^64, fields within
   their structure, which `PyFormats` takes from C.
