--------------------------- MODULE MCProcControl ---------------------------
(***************************************************************************)
(* Small instances of ProcControl for TLC.                                 *)
(***************************************************************************)
EXTENDS ProcControl

NoChild == {}
FirstChild == {0}
AllChildren == EmIds

\* Configurations of executables only.
Executables == {[c \in EmIds |-> "executable"]}

\* All programs are java, as in config_bftsmart.txt.
Javas == {[c \in EmIds |-> "java"]}

\* Configurations with at most one line that names no executable.
OneOdd == {f \in [EmIds -> Kinds] : \E c \in EmIds :
               \A d \in EmIds \ {c} : f[d] = "executable"}
=============================================================================
