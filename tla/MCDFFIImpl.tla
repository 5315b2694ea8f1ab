---------------------------- MODULE MCDFFIImpl ----------------------------
(* Values for the constants of DFFIImpl: a header, three libraries, a text *)
(* that does not compile, one with a warning and two with asm labels.    *)
EXTENDS DFFIImpl, TLC

CONSTANTS header, adder, printer, broken, redirected, chain, adder2, warning,
          f, p, g, r, q, fnSig, varSig, varSig0, varSig1, varSig2, dblSig, int, dbl

Nothing == [s \in {} |-> fnSig]

(* A definition: its signature, name in the source, and place.             *)
Def(sig, name, place) == [sig |-> sig, name |-> name, place |-> place]

Program(ok, warn, defs, decls, alias) ==
    [ok |-> ok, warn |-> warn,
     defs  |-> [s \in DOMAIN defs |-> defs[s].sig],
     name  |-> [s \in DOMAIN defs |-> defs[s].name],
     place |-> [s \in DOMAIN defs |-> defs[s].place],
     decls |-> decls, alias |-> alias]

MCProg ==
    \* int f(int); void p(const char*, ...); int g(int) __asm__("f");
    header     :> Program(TRUE, FALSE, Nothing, f :> fnSig @@ p :> varSig, g :> f)
    \* int f(int a) { return a + 1; }
 @@ adder      :> Program(TRUE, FALSE, f :> Def(fnSig, f, 1), Nothing, Nothing)
    \* double f(double a) { return a; }, the name of adder's function
 @@ adder2     :> Program(TRUE, FALSE, f :> Def(dblSig, f, 1), Nothing, Nothing)
    \* void p(const char* prefix, ...) { ... }
 @@ printer    :> Program(TRUE, FALSE, p :> Def(varSig, p, 1), Nothing, Nothing)
    \* this is not valid C code
 @@ broken     :> Program(FALSE, FALSE, Nothing, Nothing, Nothing)
    \* int q(int) __asm__("r"); int q(int a) { return a; }
 @@ redirected :> Program(TRUE, FALSE, r :> Def(fnSig, q, 1), r :> fnSig, q :> r)
    \* int q(int) __asm__("r"); int g(int) __asm__("q");
    \* int g(int a) { return -a; } int q(int a) { return a; }
 @@ chain      :> Program(TRUE, FALSE, q :> Def(fnSig, g, 1) @@ r :> Def(fnSig, q, 2),
                          q :> fnSig @@ r :> fnSig, g :> q @@ q :> r)
    \* a definition clang warns about
 @@ warning    :> Program(TRUE, TRUE, f :> Def(fnSig, f, 1), Nothing, Nothing)

MCCode == CompileCode \cup CdefCode

MCSpecSig == varSig :> (<<>> :> varSig0 @@ <<int>> :> varSig1 @@ <<dbl>> :> varSig2)
=============================================================================
