---------------------------- MODULE GenReference ----------------------------
(***************************************************************************)
(* scripts/gen_reference.go: the program behind `make docs-reference`.     *)
(* main runs generateReasonCodes, which parses budget/reasons.go,          *)
(* circuit/types.go, every Go file of the scanned packages,                *)
(* retry/executor.go, retry/budget.go and observe/types.go and writes the  *)
(* reason-codes page, then generatePolicySchema, which parses              *)
(* policy/key.go and policy/schema.go and writes the policy-schema page.   *)
(* Any error ends the program through fail (exit status 1).                *)
(*                                                                         *)
(* The source tree is the input: Init picks it from small sets of files.   *)
(* A file is the part of its go/ast tree the collectors look at.  A Go     *)
(* expression is a record tagged by kind:                                  *)
(*   "str"        a string literal with value v                           *)
(*   "num"        a numeric literal                                        *)
(*   "add"        the binary expression x + y                              *)
(*   "ref"        an identifier, selector or call (decision.Reason, f())   *)
(*   "composite"  a composite literal T{...} with key/value elements elts  *)
(* String values are naturals ordered as Go orders the strings; printing   *)
(* an expression back (exprString) is the expression itself.  The struct   *)
(* tables (collectStructFields, writeStruct) and the Markdown layout are   *)
(* left out: the pages are records of the lists they show.                 *)
(***************************************************************************)
EXTENDS Integers, Sequences, SequencesExt

CONSTANTS
    Values,          \* string constants of the scanned code
    HttpPrefix,      \* the literal "http_"
    GrpcPrefix,      \* the literal "grpc_"
    ConstNames,      \* identifiers declared in const blocks
    ReasonNamed,     \* those of ConstNames that start with "Reason"
    LimitNames,      \* the names generatePolicySchema asks collectConstValues for
    ScanDirs,        \* classify, retry, integrations/grpc, in that order
    DirChoices,      \* listings a scanned directory may have
    ConstFileChoices,    \* budget/reasons.go and circuit/types.go
    FuncFileChoices,     \* retry/executor.go
    NodeFileChoices,     \* retry/budget.go
    SchemaFileChoices    \* policy/schema.go

ASSUME GenReferenceAssumption ==
    /\ Values \subseteq Nat /\ ConstNames \subseteq Nat
    /\ {HttpPrefix, GrpcPrefix} \subseteq Values /\ HttpPrefix # GrpcPrefix
    /\ ReasonNamed \subseteq ConstNames /\ LimitNames \subseteq ConstNames
    /\ ScanDirs \in Seq(STRING) /\ DirChoices # {}

-----------------------------------------------------------------------------
(* Expressions and the two collectors of Reason values.                    *)

\* stringLiteral: the value of a string literal, for any other expression
\* no value.
IsStringLiteral(e) == e.k = "str"

\* The pattern addReasonExpr lists for prefix + <something>.
PatternOf(prefix) ==
    [prefix |-> prefix,
     hole   |-> CASE prefix = HttpPrefix -> "status"
                  [] prefix = GrpcPrefix -> "code"
                  [] OTHER               -> "dynamic"]

\* newReasonSet and the reasonSet struct.
EmptyReasonSet == [static |-> {}, patterns |-> {}]

\* addReasonExpr: a string literal goes to Static, an addition whose left
\* operand is a string literal to Patterns; anything else is dropped.
AddReasonExpr(e, rs) ==
    CASE IsStringLiteral(e)                  -> [rs EXCEPT !.static = @ \cup {e.v}]
      [] e.k = "add" /\ IsStringLiteral(e.x) -> [rs EXCEPT !.patterns = @ \cup {PatternOf(e.x.v)}]
      [] OTHER                               -> rs

\* The right-hand sides that an assignment stores into a selector .name
\* (x.name = e); a left side without a right side at its index (a
\* multi-value call) stores nothing the collector looks at.
AssignedTo(node, name) ==
    {node.rhs[i] : i \in {i \in DOMAIN node.lhs : /\ node.lhs[i] = [sel |-> name]
                                                   /\ i <= Len(node.rhs)}}

\* The Reason values of one file: the values of key/value elements with
\* the identifier key Reason, and of assignments to a .Reason selector.
ReasonExprs(nodes) ==
    {n.val : n \in {n \in nodes : n.k = "kv" /\ n.key = "Reason"}}
    \cup UNION {AssignedTo(n, "Reason") : n \in {n \in nodes : n.k = "assign"}}

\* collectReasonAssignments: ast.Inspect visits every node of the file.
CollectReasonAssignments(nodes, rs) ==
    FoldSet(AddReasonExpr, rs, ReasonExprs(nodes))

\* setToSorted and sortedKeys: sort.Strings of a set's members.
SetToSorted(set) == SetToSortSeq(set, <)

\* The const specs of a file's declarations, in order.
ConstSpecs(decls) ==
    UNION {ToSet(d.specs) : d \in {d \in ToSet(decls) : d.tok = "const"}}

\* collectReasonConsts: the string values of the constants named Reason*.
CollectReasonConsts(decls) ==
    SetToSorted(UNION {{vs.values[i].v :
                          i \in {i \in DOMAIN vs.names : /\ vs.names[i] \in ReasonNamed
                                                         /\ i <= Len(vs.values)
                                                         /\ IsStringLiteral(vs.values[i])}} :
                        vs \in ConstSpecs(decls)})

\* The results of the return statements in the bodies of the functions
\* named name, each a sequence, in the order ast.Inspect meets them.
Returns(funcs, name) ==
    UNION {ToSet(fn.returns) : fn \in {fn \in funcs : fn.name = name}}

\* collectFailureModeStrings: the string literals returned anywhere in
\* the body of failureModeString.
CollectFailureModeStrings(funcs) ==
    SetToSorted({r.v : r \in {r \in UNION {ToSet(res) : res \in Returns(funcs, "failureModeString")} :
                                 IsStringLiteral(r)}})

\* collectModeAssignments: string literals assigned to a .Mode selector.
CollectModeAssignments(nodes) ==
    {e.v : e \in {e \in UNION {AssignedTo(n, "Mode") : n \in {n \in nodes : n.k = "assign"}} :
                    IsStringLiteral(e)}}

-----------------------------------------------------------------------------
(* The policy schema collectors.                                           *)

\* collectTypedConstValues: name and value of the string constants
\* declared with the type typeName, sorted by name.
CollectTypedConstValues(decls, typeName) ==
    SetToSortSeq(UNION {{[name |-> vs.names[i], value |-> vs.values[i].v] :
                           i \in {i \in DOMAIN vs.names : /\ i <= Len(vs.values)
                                                          /\ IsStringLiteral(vs.values[i])}} :
                         vs \in {vs \in ConstSpecs(decls) : vs.type = typeName}},
                 LAMBDA a, b : a.name < b.name)

\* collectConstValues: the initializer of each wanted constant; a name
\* past the end of the values takes the last one, a spec without values
\* (an implicitly repeated const) is skipped.
CollectConstValues(decls, want) ==
    LET specOf(n) == CHOOSE vs \in ConstSpecs(decls) :
                         Len(vs.values) > 0 /\ n \in ToSet(vs.names)
        idx(vs, n) == LET i == CHOOSE i \in DOMAIN vs.names : vs.names[i] = n
                      IN  IF i > Len(vs.values) THEN Len(vs.values) ELSE i
        named == {n \in want : \E vs \in ConstSpecs(decls) :
                                  Len(vs.values) > 0 /\ n \in ToSet(vs.names)}
    IN  [n \in named |-> specOf(n).values[idx(specOf(n), n)]]

\* Mutation: a nested literal's fields recorded under their own name.
RECURSIVE ParseCompositeLitNoPrefix(_, _)
ParseCompositeLitNoPrefix(prefix, lit) ==
    FoldLeft(LAMBDA acc, elt :
                 IF elt.key = "" THEN acc
                 ELSE IF elt.val.k = "composite"
                      THEN ParseCompositeLitNoPrefix(<<elt.key>>, elt.val) @@ acc
                      ELSE (Append(prefix, elt.key) :> elt.val) @@ acc,
             [x \in {} |-> x], lit.elts)

\* parseCompositeLit: each keyed element of a composite literal gives the
\* default at prefix.key; a nested composite literal is walked with that
\* path as its prefix.  Elements without an identifier key are skipped.
RECURSIVE ParseCompositeLit(_, _)
ParseCompositeLit(prefix, lit) ==
    FoldLeft(LAMBDA acc, elt :
                 IF elt.key = "" THEN acc
                 ELSE IF elt.val.k = "composite"
                      THEN ParseCompositeLit(Append(prefix, elt.key), elt.val) @@ acc
                      ELSE (Append(prefix, elt.key) :> elt.val) @@ acc,
             [x \in {} |-> x], lit.elts)

\* collectDefaultPolicyValues: in DefaultPolicyFor, every return whose
\* first result is a composite literal, in order, a later one overwriting
\* the paths of an earlier one; a return of anything else (&T{...}) is
\* passed over.
CollectDefaultPolicyValues(funcs) ==
    LET fns == {fn \in funcs : fn.name = "DefaultPolicyFor"}
        add(acc, r) == IF Len(r) > 0 /\ r[1].k = "composite"
                       THEN ParseCompositeLit(<<>>, r[1]) @@ acc
                       ELSE acc
    IN  FoldSet(LAMBDA fn, acc : FoldLeft(add, acc, fn.returns), [x \in {} |-> x], fns)

-----------------------------------------------------------------------------
(* main, generateReasonCodes and generatePolicySchema, one action per call *)
(* that reads or writes a file.                                            *)

VARIABLES
    tree,            \* the files of the repository the program reads
    pc,              \* the call main is at, or "exited"
    dirIdx,          \* the scanned package being listed (index into ScanDirs)
    fileIdx,         \* the Go file of that package being parsed
    budgetReasons,   \* collectReasonConsts of budget/reasons.go
    circuitReasons,  \* collectReasonConsts of circuit/types.go
    outcome,         \* the reasonSet of the scanned packages
    modes,           \* modeReasons
    reasonsPage,     \* docs/reference/reason-codes.md
    policyPage,      \* docs/reference/policy-schema.md
    exitCode         \* the process's exit status, -1 while it runs

vars == <<tree, pc, dirIdx, fileIdx, budgetReasons, circuitReasons, outcome,
          modes, reasonsPage, policyPage, exitCode>>
collected == <<budgetReasons, circuitReasons, outcome, modes>>
pages == <<reasonsPage, policyPage>>

\* The repositories Init chooses from; the three fixed files main also
\* parses (observe/types.go, policy/key.go) matter only by parsing or not.
Trees == [budget : ConstFileChoices, circuit : ConstFileChoices,
          dirs : [1..Len(ScanDirs) -> DirChoices],
          executor : FuncFileChoices, budgetGo : NodeFileChoices,
          observe : BOOLEAN, key : BOOLEAN, schema : SchemaFileChoices]

\* goFiles: the entries of a listing that are files named *.go.
GoFiles(dir) == SelectSeq(dir.entries, LAMBDA e : e.kind = "go")

CurFiles == GoFiles(tree.dirs[dirIdx])

\* What os.WriteFile can do: write the page, fail to open it (the old
\* page stays), or fail after truncating it (a partial page stays).
WriteOutcomes == {"ok", "openFailed", "shortWrite"}

Written(page, doc, w) ==
    CASE w = "ok"         -> [state |-> "fresh", doc |-> doc]
      [] w = "openFailed" -> page
      [] w = "shortWrite" -> [state |-> "corrupt", doc |-> <<>>]

\* renderReasonsMarkdown: the lists the reason-codes page shows.
ReasonsDoc ==
    [static |-> SetToSorted(outcome.static), patterns |-> outcome.patterns,
     budget |-> budgetReasons, circuit |-> circuitReasons,
     modes |-> SetToSorted(modes)]

\* renderPolicySchemaMarkdown: the tables the policy-schema page shows.
PolicyDoc(schema) ==
    [defaults |-> CollectDefaultPolicyValues(schema.funcs),
     jitter   |-> CollectTypedConstValues(schema.decls, "JitterKind"),
     sources  |-> CollectTypedConstValues(schema.decls, "PolicySource"),
     limits   |-> CollectConstValues(schema.decls, LimitNames)]

\* fail: print the error and exit with status 1.
Fail == pc' = "exited" /\ exitCode' = 1

Init ==
    /\ tree \in Trees
    /\ pc = "budgetConsts"
    /\ dirIdx = 1 /\ fileIdx = 1
    /\ budgetReasons = <<>> /\ circuitReasons = <<>>
    /\ outcome = EmptyReasonSet /\ modes = {}
    /\ reasonsPage = [state |-> "stale", doc |-> <<>>]
    /\ policyPage = [state |-> "stale", doc |-> <<>>]
    /\ exitCode = -1

BudgetConsts ==
    /\ pc = "budgetConsts"
    /\ IF tree.budget.parses
       THEN /\ budgetReasons' = CollectReasonConsts(tree.budget.decls)
            /\ pc' = "circuitConsts" /\ UNCHANGED exitCode
       ELSE Fail /\ UNCHANGED budgetReasons
    /\ UNCHANGED <<tree, dirIdx, fileIdx, circuitReasons, outcome, modes, pages>>

CircuitConsts ==
    /\ pc = "circuitConsts"
    /\ IF tree.circuit.parses
       THEN /\ circuitReasons' = CollectReasonConsts(tree.circuit.decls)
            /\ pc' = "scanDir" /\ UNCHANGED exitCode
       ELSE Fail /\ UNCHANGED circuitReasons
    /\ UNCHANGED <<tree, dirIdx, fileIdx, budgetReasons, outcome, modes, pages>>

\* Mutation: a package's files listed from where the last one stopped.
ScanDirNoReset ==
    /\ pc = "scanDir" /\ dirIdx <= Len(ScanDirs)
    /\ IF tree.dirs[dirIdx].readable
       THEN pc' = "scanFile" /\ UNCHANGED exitCode
       ELSE Fail
    /\ UNCHANGED <<tree, dirIdx, fileIdx, collected, pages>>

\* goFiles(dir) of the next scanned package; a directory that cannot be
\* read is an error.
ScanDir ==
    /\ pc = "scanDir" /\ dirIdx <= Len(ScanDirs)
    /\ IF tree.dirs[dirIdx].readable
       THEN pc' = "scanFile" /\ fileIdx' = 1 /\ UNCHANGED exitCode
       ELSE Fail /\ UNCHANGED fileIdx
    /\ UNCHANGED <<tree, dirIdx, collected, pages>>

ScanDone ==
    /\ pc = "scanDir" /\ dirIdx > Len(ScanDirs)
    /\ pc' = "failureModes"
    /\ UNCHANGED <<tree, dirIdx, fileIdx, collected, pages, exitCode>>

NextDir ==
    /\ pc = "scanFile" /\ fileIdx > Len(CurFiles)
    /\ pc' = "scanDir" /\ dirIdx' = dirIdx + 1
    /\ UNCHANGED <<tree, fileIdx, collected, pages, exitCode>>

\* A file named *_test.go is passed over.
SkipTestFile ==
    /\ pc = "scanFile" /\ fileIdx <= Len(CurFiles) /\ CurFiles[fileIdx].test
    /\ fileIdx' = fileIdx + 1
    /\ UNCHANGED <<tree, pc, dirIdx, collected, pages, exitCode>>

\* collectReasonAssignments of one file; a parse error is returned.
ScanFile ==
    /\ pc = "scanFile" /\ fileIdx <= Len(CurFiles) /\ ~CurFiles[fileIdx].test
    /\ IF CurFiles[fileIdx].parses
       THEN /\ outcome' = CollectReasonAssignments(CurFiles[fileIdx].nodes, outcome)
            /\ fileIdx' = fileIdx + 1 /\ UNCHANGED <<pc, exitCode>>
       ELSE Fail /\ UNCHANGED <<outcome, fileIdx>>
    /\ UNCHANGED <<tree, dirIdx, budgetReasons, circuitReasons, modes, pages>>

FailureModes ==
    /\ pc = "failureModes"
    /\ IF tree.executor.parses
       THEN /\ modes' = ToSet(CollectFailureModeStrings(tree.executor.funcs))
            /\ pc' = "modeAssignments" /\ UNCHANGED exitCode
       ELSE Fail /\ UNCHANGED modes
    /\ UNCHANGED <<tree, dirIdx, fileIdx, budgetReasons, circuitReasons, outcome, pages>>

ModeAssignments ==
    /\ pc = "modeAssignments"
    /\ IF tree.budgetGo.parses
       THEN /\ modes' = modes \cup CollectModeAssignments(tree.budgetGo.nodes)
            /\ pc' = "observeStructs" /\ UNCHANGED exitCode
       ELSE Fail /\ UNCHANGED modes
    /\ UNCHANGED <<tree, dirIdx, fileIdx, budgetReasons, circuitReasons, outcome, pages>>

ObserveStructs ==
    /\ pc = "observeStructs"
    /\ IF tree.observe THEN pc' = "writeReasons" /\ UNCHANGED exitCode ELSE Fail
    /\ UNCHANGED <<tree, dirIdx, fileIdx, collected, pages>>

\* Mutation: the error of os.WriteFile dropped.
WriteReasonsIgnoreError ==
    /\ pc = "writeReasons"
    /\ \E w \in WriteOutcomes : reasonsPage' = Written(reasonsPage, ReasonsDoc, w)
    /\ pc' = "policyKey"
    /\ UNCHANGED <<tree, dirIdx, fileIdx, collected, policyPage, exitCode>>

\* renderReasonsMarkdown, then os.WriteFile of the reason-codes page.
WriteReasons ==
    /\ pc = "writeReasons"
    /\ \E w \in WriteOutcomes :
          /\ reasonsPage' = Written(reasonsPage, ReasonsDoc, w)
          /\ IF w = "ok" THEN pc' = "policyKey" /\ UNCHANGED exitCode ELSE Fail
    /\ UNCHANGED <<tree, dirIdx, fileIdx, collected, policyPage>>

PolicyKey ==
    /\ pc = "policyKey"
    /\ IF tree.key THEN pc' = "policySchema" /\ UNCHANGED exitCode ELSE Fail
    /\ UNCHANGED <<tree, dirIdx, fileIdx, collected, pages>>

\* The five collectors that parse policy/schema.go; the file parses for
\* all of them or for none.
PolicySchema ==
    /\ pc = "policySchema"
    /\ IF tree.schema.parses THEN pc' = "writePolicy" /\ UNCHANGED exitCode ELSE Fail
    /\ UNCHANGED <<tree, dirIdx, fileIdx, collected, pages>>

\* renderPolicySchemaMarkdown, then os.WriteFile of the policy-schema
\* page; main returns, and the process exits with status 0.
WritePolicy ==
    /\ pc = "writePolicy"
    /\ \E w \in WriteOutcomes :
          /\ policyPage' = Written(policyPage, PolicyDoc(tree.schema), w)
          /\ IF w = "ok" THEN pc' = "exited" /\ exitCode' = 0 ELSE Fail
    /\ UNCHANGED <<tree, dirIdx, fileIdx, collected, reasonsPage>>

Next ==
    \/ BudgetConsts \/ CircuitConsts
    \/ ScanDir \/ ScanDone \/ NextDir \/ SkipTestFile \/ ScanFile
    \/ FailureModes \/ ModeAssignments \/ ObserveStructs \/ WriteReasons
    \/ PolicyKey \/ PolicySchema \/ WritePolicy

Spec == Init /\ [][Next]_vars

-----------------------------------------------------------------------------
(* Properties.                                                             *)

\* The Reason expressions of the Go files, other than tests, of the
\* scanned packages.
ScannedReasonExprs(t) ==
    UNION {ReasonExprs(f.nodes) :
             f \in {f \in UNION {ToSet(GoFiles(t.dirs[d])) : d \in 1..Len(ScanDirs)} : ~f.test}}

\* The reason-codes page, once written, lists as static reasons exactly
\* the string literals assigned to a Reason in the scanned packages'
\* non-test files, whichever package and file they are in.  Breaking it
\* takes a file skipped or scanned twice by the loops of
\* generateReasonCodes, or a test file read.
ReasonsPageFaithful ==
    reasonsPage.state = "fresh" =>
        ToSet(reasonsPage.doc.static) =
            {e.v : e \in {e \in ScannedReasonExprs(tree) : IsStringLiteral(e)}}

\* The program exits with status 0 only when both pages were written in
\* full: a failed os.WriteFile, which may leave a truncated page behind,
\* always ends with status 1.
ExitStatusHonest ==
    exitCode = 0 => reasonsPage.state = "fresh" /\ policyPage.state = "fresh"

\* The leaves of a composite literal, each with its dotted path.
RECURSIVE Leaves(_, _)
Leaves(prefix, lit) ==
    UNION {IF e.val.k = "composite" THEN Leaves(Append(prefix, e.key), e.val)
           ELSE {Append(prefix, e.key)} :
           e \in {e \in ToSet(lit.elts) : e.key # ""}}

\* Every keyed leaf of a composite literal that DefaultPolicyFor returns,
\* however deeply nested, has a row under its full dotted path in the
\* default policy values table.
DefaultsComplete ==
    policyPage.state = "fresh" =>
        \A r \in Returns(tree.schema.funcs, "DefaultPolicyFor") :
            Len(r) > 0 /\ r[1].k = "composite" =>
                Leaves(<<>>, r[1]) \subseteq DOMAIN policyPage.doc.defaults

\* The left-most operand of a chain of additions.
RECURSIVE LeadingOperand(_)
LeadingOperand(e) == IF e.k = "add" THEN LeadingOperand(e.x) ELSE e

\* A Reason expression the page accounts for: a literal listed as a
\* static reason, or a concatenation starting with a literal whose
\* pattern is listed.
Documented(e, doc) ==
    CASE IsStringLiteral(e) -> e.v \in ToSet(doc.static)
      [] e.k = "add" /\ IsStringLiteral(LeadingOperand(e)) ->
            PatternOf(LeadingOperand(e).v) \in doc.patterns
      [] OTHER -> FALSE

\* What the page says of its "Outcome reasons" section: "These values
\* appear in observe.AttemptRecord.Outcome.Reason".  Every value the
\* scanned packages assign to a Reason is accounted for there.
ReasonsComplete ==
    reasonsPage.state = "fresh" =>
        \A e \in ScannedReasonExprs(tree) : Documented(e, reasonsPage.doc)

=============================================================================
