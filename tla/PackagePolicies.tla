--------------------------- MODULE PackagePolicies ---------------------------
(***************************************************************************)
(* What the packages of the release must and must not export:              *)
(* scripts/check-keiro-dsl-api-boundaries.py (the constructors and the     *)
(* private module of keiro-dsl) and scripts/check-keiro-reexports.py (the  *)
(* keiro-core modules that generated code imports).                        *)
(*                                                                         *)
(* An export list is a sequence of tokens: words, parentheses, commas and  *)
(* "{-" for a block comment; line comments and layout are left out.  The   *)
(* literals of the emitters are the set of the modules they name.          *)
(***************************************************************************)
EXTENDS Integers, Sequences, SequencesExt

CONSTANTS
  TypeNames,        \* the words that name types
  PreparedTypes,    \* those of them that begin with Prepared
  Protected,        \* PROTECTED_EXPORTS: module -> [abstract, required]
  LanguageModule,   \* GENERATED_LANGUAGE_MODULE
  GoodPackages,     \* the packages of the repository
  OtherPackages(_), \* the packages that differ from some in one place
  MaxPackageEdits   \* bound: how often the packages are edited

ASSUME PackagesOK ==
  /\ PreparedTypes \subseteq TypeNames
  /\ TypeNames \cap {"(", ")", ",", "type"} = {}
  /\ \A m \in DOMAIN Protected : Protected[m].abstract \subseteq TypeNames
  /\ MaxPackageEdits \in Nat

VARIABLES
  packages,  \* the cabal files and sources, a record
  boundary,  \* verdicts of the last checks: "none", "pass" or "fail"
  reexport,
  edited     \* how often the packages were edited

packageVars == <<packages, boundary, reexport, edited>>

-----------------------------------------------------------------------------
(* Export lists *)

Flush(items, item) == IF item = <<>> THEN items ELSE Append(items, item)

\* Mutant: every comma ends an item.
ReadToken_Flat(s, token) ==
  LET depth == s.depth + (IF token = "(" THEN 1 ELSE IF token = ")" THEN -1 ELSE 0) IN
    IF s.failed \/ depth < 0 \/ token = "{-" THEN [s EXCEPT !.failed = TRUE]
    ELSE IF token = ","
         THEN [s EXCEPT !.depth = depth, !.items = Flush(@, s.item), !.item = <<>>]
         ELSE [s EXCEPT !.depth = depth, !.item = Append(@, token)]

\* One token of split_top_level_exports: a comma outside parentheses ends an item.
ReadToken(s, token) ==
  LET depth == s.depth + (IF token = "(" THEN 1 ELSE IF token = ")" THEN -1 ELSE 0) IN
    IF s.failed \/ depth < 0 \/ token = "{-" THEN [s EXCEPT !.failed = TRUE]
    ELSE IF token = "," /\ depth = 0
         THEN [s EXCEPT !.items = Flush(@, s.item), !.item = <<>>]
         ELSE [s EXCEPT !.depth = depth, !.item = Append(@, token)]

\* What has been read before each token of the list and after the last.
Reading(tokens) ==
  LET after[n \in 0 .. Len(tokens)] ==
        IF n = 0 THEN [depth |-> 0, items |-> <<>>, item |-> <<>>, failed |-> FALSE]
        ELSE ReadToken(after[n - 1], tokens[n])
  IN after

SplitTopLevel(tokens) ==
  LET s == Reading(tokens)[Len(tokens)]
  IN [failed |-> s.failed \/ s.depth # 0, items |-> Flush(s.items, s.item)]

\* TYPE_EXPORT: the type an item exports and whether it has a list of members.
TypeItem(item) == IF item[1] = "type" THEN Tail(item) ELSE item
IsTypeExport(item) == LET t == TypeItem(item) IN
  /\ t # <<>> /\ t[1] \in TypeNames
  /\ Len(t) > 1 => t[2] = "(" /\ Last(t) = ")"
WithMembers(item) == Len(TypeItem(item)) > 1
NamesType(item, T) == IsTypeExport(item) /\ TypeItem(item)[1] = T

\* MODULE_HEADER: the module has an export list in the house format.
HasExportList(src) == src.formatted

\* parse_exports: the items of a module's source, or a parse failure.
ParseExports(m) ==
  LET src == packages.sources[m]
      split == SplitTopLevel(src.exports)
  IN [failed |-> ~HasExportList(src) \/ src.name # m \/ split.failed \/ split.items = <<>>,
      items |-> split.items]

-----------------------------------------------------------------------------
(* The API boundaries of keiro-dsl *)

\* check_export_contract: items are compared by their text.
ContractBroken(items, contract) ==
  \/ \E T \in contract.abstract :
       ~\E i \in DOMAIN items :
           /\ items[i] = <<T>>
           /\ {j \in DOMAIN items : NamesType(items[j], T)} = {i}
  \/ \E f \in contract.required : <<f>> \notin ToSet(items)

\* check_prepared_exports
PreparedOpen(items) ==
  \E i \in ToSet(items), T \in PreparedTypes : NamesType(i, T) /\ WithMembers(i)

\* check_cabal, with the parse failures of component and component_field.
CabalBroken ==
  \/ Len(packages.libraries) # 1
  \/ Len(packages.privates) # 1
  \/ LanguageModule \in ToSet(packages.libraries[1].exposed)
  \/ LET p == packages.privates[1] IN
       \/ {i \in DOMAIN p.exposed : p.exposed[i] = LanguageModule} = {}
       \/ \E i, j \in DOMAIN p.exposed :
            i # j /\ p.exposed[i] = LanguageModule /\ p.exposed[j] = LanguageModule
       \/ p.visibility # <<"private">>
       \/ p.dirs # <<"internal">>
  \/ ~packages.internal

Exposed == ToSet(packages.libraries[1].exposed)
HasSource(m) == m \in DOMAIN packages.sources

\* run_policy
BoundaryBroken ==
  \/ CabalBroken
  \/ \E m \in Exposed :
       ~HasSource(m) \/ ParseExports(m).failed \/ PreparedOpen(ParseExports(m).items)
  \/ \E m \in DOMAIN Protected :
       \/ m \notin Exposed
       \/ HasSource(m) /\ ContractBroken(ParseExports(m).items, Protected[m])

-----------------------------------------------------------------------------
(* The re-exports of keiro *)

\* exposed_modules: of the library stanza that has no name.
CoreModules == packages.core

\* reexported_modules: the entries with the prefix of keiro-core.
Reexported == {e[2] : e \in {x \in packages.reexports : x[1] = "keiro-core"}}

\* imported_in_emitters
Emitted == packages.emitted \cap CoreModules

\* main: modules that are missing, and entries of the allowlist that are stale.
ReexportBroken ==
  \/ ~(Emitted \subseteq Reexported \cup packages.allowed)
  \/ ~(packages.allowed \subseteq Emitted)

-----------------------------------------------------------------------------
PackagesInit ==
  /\ packages = GoodPackages
  /\ boundary = "none"
  /\ reexport = "none"
  /\ edited = 0

EditPackages ==
  /\ edited < MaxPackageEdits
  /\ edited' = edited + 1
  /\ packages' \in OtherPackages(packages)
  /\ boundary' = "none"
  /\ reexport' = "none"

CheckBoundary ==
  /\ boundary' = IF BoundaryBroken THEN "fail" ELSE "pass"
  /\ UNCHANGED <<packages, reexport, edited>>

CheckReexports ==
  /\ reexport' = IF ReexportBroken THEN "fail" ELSE "pass"
  /\ UNCHANGED <<packages, boundary, edited>>

PackagesNext == EditPackages \/ CheckBoundary \/ CheckReexports

PackagesSpec == PackagesInit /\ [][PackagesNext]_packageVars

-----------------------------------------------------------------------------
(* Correctness *)

\* How deep in parentheses the i-th token is.
DepthAt(tokens, i) ==
  Cardinality({j \in 1 .. i - 1 : tokens[j] = "("}) - Cardinality({j \in 1 .. i - 1 : tokens[j] = ")"})

\* The list exports the word at position i, and a word with a list of members.
ExportsAt(tokens, i, word) == tokens[i] = word /\ DepthAt(tokens, i) = 0
ExportsOpen(tokens, T) ==
  \E i \in DOMAIN tokens : ExportsAt(tokens, i, T) /\ i < Len(tokens) /\ tokens[i + 1] = "("

\* A type name with a list of members is an export of its own: it comes first,
\* or after "type", and nothing follows the list but the next export.  An export
\* list that compiles is of this form.
TopComma(tokens, i) == tokens[i] = "," /\ DepthAt(tokens, i) = 0
Starts(tokens, i) == i = 1 \/ (i > 1 /\ TopComma(tokens, i - 1))
WellFormed(tokens) ==
  /\ tokens \in Seq(STRING)
  /\ \A i \in 1 .. Len(tokens) - 1 :
       tokens[i] \in TypeNames /\ DepthAt(tokens, i) = 0 /\ tokens[i + 1] = "(" =>
         /\ Starts(tokens, i) \/ (i > 1 /\ tokens[i - 1] = "type" /\ Starts(tokens, i - 1))
         /\ \A j \in i + 2 .. Len(tokens) :
              DepthAt(tokens, j) = 0 /\ (\A k \in i + 2 .. j - 1 : DepthAt(tokens, k) # 0)
                => tokens[j] = ","
SourcesCompile ==
  \A m \in DOMAIN packages.sources : WellFormed(packages.sources[m].exports)

\* The constructors of T can be imported from a module of the main library.
Constructible(T) ==
  \E m \in Exposed : HasSource(m) /\ ExportsOpen(packages.sources[m].exports, T)

\* When both checks pass, no consumer can build a prepared or a protected value
\* past its functions, which it can import, the private module stays private,
\* and a consumer of keiro alone can import whatever generated code imports of
\* keiro-core.
BoundarySound ==
  boundary = "pass" /\ reexport = "pass" =>
    /\ \A T \in PreparedTypes : ~Constructible(T)
    /\ \A m \in DOMAIN Protected : LET exports == packages.sources[m].exports IN
         /\ m \in Exposed
         /\ \A T \in Protected[m].abstract : ~ExportsOpen(exports, T)
         /\ \A word \in Protected[m].abstract \cup Protected[m].required :
              \E i \in DOMAIN exports : ExportsAt(exports, i, word)
    /\ LanguageModule \notin Exposed
    /\ \A c \in packages.emitted \cap packages.core :
         c \in packages.allowed \/ \E e \in packages.reexports : e[1] = "keiro-core" /\ e[2] = c
=============================================================================
