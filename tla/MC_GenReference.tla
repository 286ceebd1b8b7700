------------------------- MODULE MC_GenReference -------------------------
(***************************************************************************)
(* A small repository for GenReference.  String values are 1..4, with 3    *)
(* standing for "http_" and 4 for "grpc_"; const names are 1..6, of which  *)
(* 1 and 2 start with "Reason" and 5 and 6 are normalization limits.  Two  *)
(* packages are scanned; each may be unreadable, hold a test file, a       *)
(* subdirectory or a file that does not parse.  Every other file parses    *)
(* or not, and policy/schema.go has nested defaults three levels deep,     *)
(* typed constants out of name order and an implicitly repeated const.     *)
(***************************************************************************)
EXTENDS GenReference

\* Go syntax, as GenReference reads it.
Lit(v) == [k |-> "str", v |-> v]
Num == [k |-> "num"]
Ref == [k |-> "ref"]
Add(x, y) == [k |-> "add", x |-> x, y |-> y]
Comp(elts) == [k |-> "composite", elts |-> elts]
El(key, val) == [key |-> key, val |-> val]
KV(key, val) == [k |-> "kv", key |-> key, val |-> val]
Assign(lhs, rhs) == [k |-> "assign", lhs |-> lhs, rhs |-> rhs]
Sel(name) == [sel |-> name]
Ident == [ident |-> "err"]
GoFile(test, nodes) == [kind |-> "go", test |-> test, parses |-> TRUE, nodes |-> nodes]
Spec1(names, type, values) == [names |-> names, type |-> type, values |-> values]

MCValues == 1..4
MCConstNames == 1..6
MCReasonNamed == {1, 2}
MCLimitNames == {5, 6}
MCScanDirs == <<"classify", "retry">>

Broken == [kind |-> "go", test |-> FALSE, parses |-> FALSE, nodes |-> {}]
SubDir == [kind |-> "dir", test |-> FALSE, parses |-> TRUE, nodes |-> {}]
Readme == [kind |-> "other", test |-> FALSE, parses |-> TRUE, nodes |-> {}]

\* classify/: literals set both ways, next to a test file.
Literals == GoFile(FALSE, {KV("Reason", Lit(1)), Assign(<<Sel("Reason")>>, <<Lit(2)>>),
                           KV("Kind", Lit(4))})
TestFile == GoFile(TRUE, {KV("Reason", Lit(4))})
\* retry/: an "http_" + status pattern, an assignment from a two-valued
\* call, and one more literal.
Patterns == GoFile(FALSE, {KV("Reason", Add(Lit(3), Ref)),
                           Assign(<<Ident, Sel("Reason")>>, <<Ref>>)})
MoreLiterals == GoFile(FALSE, {KV("Reason", Lit(3))})

MCDirChoices ==
    {[readable |-> FALSE, entries |-> <<>>],
     [readable |-> TRUE, entries |-> <<Literals, TestFile>>],
     [readable |-> TRUE, entries |-> <<SubDir, Patterns, MoreLiterals, Readme>>],
     [readable |-> TRUE, entries |-> <<Broken>>]}

\* retry/executor.go's Outcome{Reason: decision.Reason}, and a reason
\* built as "grpc_" + code + "_x".
Forwarded == GoFile(FALSE, {KV("Reason", Ref), KV("Reason", Add(Add(Lit(4), Ref), Lit(1)))})

MCDirChoicesForwarded ==
    {[readable |-> TRUE, entries |-> <<Literals>>],
     [readable |-> TRUE, entries |-> <<Forwarded>>]}

MCConstFileChoices ==
    {[parses |-> FALSE, decls |-> <<>>],
     [parses |-> TRUE,
      decls |-> <<[tok |-> "const",
                   specs |-> <<Spec1(<<1, 3>>, "none", <<Lit(1), Lit(2)>>),
                               Spec1(<<2>>, "none", <<Lit(3)>>)>>],
                  [tok |-> "var", specs |-> <<Spec1(<<1>>, "none", <<Lit(4)>>)>>]>>]}

MCFuncFileChoices ==
    {[parses |-> FALSE, funcs |-> {}],
     [parses |-> TRUE,
      funcs |-> {[name |-> "failureModeString", returns |-> <<<<Lit(1)>>, <<Ref>>>>],
                 [name |-> "other", returns |-> <<<<Lit(2)>>>>]}]}

MCNodeFileChoices ==
    {[parses |-> FALSE, nodes |-> {}],
     [parses |-> TRUE, nodes |-> {Assign(<<Sel("Mode")>>, <<Lit(3)>>)}]}

DefaultLit ==
    Comp(<<El("Retry", Comp(<<El("MaxAttempts", Num),
                              El("Budget", Comp(<<El("Name", Lit(1))>>))>>)),
           El("", Num),
           El("Hedge", Comp(<<El("Enabled", Ref)>>))>>)

MCSchemaFileChoices ==
    {[parses |-> FALSE, decls |-> <<>>, funcs |-> {}],
     [parses |-> TRUE,
      decls |-> <<[tok |-> "const",
                   specs |-> <<Spec1(<<4>>, "JitterKind", <<Lit(2)>>),
                               Spec1(<<3>>, "JitterKind", <<Lit(1)>>),
                               Spec1(<<5>>, "none", <<Num>>),
                               Spec1(<<6>>, "none", <<>>)>>]>>,
      funcs |-> {[name |-> "DefaultPolicyFor", returns |-> <<<<DefaultLit>>, <<Ref>>>>]}]}

=============================================================================
