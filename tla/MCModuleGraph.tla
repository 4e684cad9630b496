--------------------------- MODULE MCModuleGraph ---------------------------
(* Two scripts that may import each other and a stylesheet that may inline  *)
(* one of them and be imported by the other; a script may accept itself,    *)
(* and a may accept b.                                                      *)
EXTENDS ModuleGraph

CONSTANTS a, b, css

MCModules == {a, b, css}
MCSheets == {css}

Shape(url, deps, self, accepted) ==
    [url |-> url, imports |-> deps, selfAccept |-> self, deps |-> accepted,
     exports |-> NoExports, bindings |-> NoBindings]

MCShapes ==
    {Shape(a, d, s, acc) : d \in {{}, {b}, {b, css}}, s \in BOOLEAN,
                           acc \in {{}, {b}}}
      \cup {Shape(b, d, s, {}) : d \in {{}, {a}}, s \in BOOLEAN}
      \cup {Shape(css, d, FALSE, {}) : d \in {{}, {b}}}
=============================================================================
