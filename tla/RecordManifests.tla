--------------------------- MODULE RecordManifests ---------------------------
(***************************************************************************)
(* The record-field migration manifests of keiro-dsl and the script that   *)
(* writes and checks them (scripts/generate-record-migration-manifests.py).*)
(*                                                                         *)
(* A manifest has one row for each record field of the tree, with the      *)
(* label the release used (current) and the label the migration gives it   *)
(* (target).  Once the source has adopted the targets, the released labels *)
(* are only in the manifest: the script reads them back from the file it   *)
(* is about to overwrite.                                                  *)
(*                                                                         *)
(* A label is the sequence of its camel-case tokens.  Line numbers, types, *)
(* exports and the prose of the documents are left out.                    *)
(***************************************************************************)
EXTENDS Integers, Sequences, SequencesExt

CONSTANTS
  Records,           \* the record declarations of the release, as a sequence
  NewLabels,         \* labels of fields added later
  OwnerTokens,       \* the tokens of each owner's name
  Spellings(_),      \* what a field may call a run of owner tokens: the run
                     \* joined, its initials, or the singular of its one token
  OwnerPrefixes,     \* OWNER_PREFIXES: owner -> prefix, for some owners
  Rest,              \* <<prefix, token>> -> what is left of a longer token that
                     \* begins with the letters of the prefix
  ExplicitTargets,   \* EXPLICIT_TARGETS: <<owner, label>> -> target
  ReservedTargets,   \* RESERVED_TARGETS: target -> the label to use instead
  MaxRecordEdits     \* bound: how often the source is edited

Manifests == {"package", "generated"}
NoLabel == <<>>

ASSUME RecordsOK ==
  /\ Records \in Seq([manifest : Manifests, owner : DOMAIN OwnerTokens,
                      kind : {"data", "newtype"}, labels : Seq(Seq(STRING))])
  /\ \A i \in DOMAIN Records :
       /\ Records[i].labels # <<>> /\ NoLabel \notin ToSet(Records[i].labels)
       /\ \A j \in DOMAIN Records \ {i} :
            <<Records[j].manifest, Records[j].owner>> # <<Records[i].manifest, Records[i].owner>>
  /\ NewLabels \subseteq Seq(STRING)
  /\ MaxRecordEdits \in Nat

VARIABLES
  source,     \* the declarations of the tree; a field has a label, and `was',
              \* the label it had in the release or NoLabel
  documents,  \* manifest -> its rows, and the remedies for uses of the labels
  drift,      \* the verdict of the last --check: "none", "stale" or "current"
  reworks     \* how often the source was edited

recordVars == <<source, documents, drift, reworks>>

-----------------------------------------------------------------------------
(* target_names *)

\* How many owner tokens from `start' on a token stands for, the most it can.
OwnerMatch(token, tokens, start) ==
  LET ends == {e \in start .. Len(tokens) : token \in Spellings(SubSeq(tokens, start, e))}
  IN IF ends = {} THEN 0 ELSE Max(ends) - start + 1

\* Where the owner's name is found next: <<start, tokens consumed>>, or <<0, 0>>.
NextMatch(token, tokens, from) ==
  LET starts == {s \in from .. Len(tokens) : OwnerMatch(token, tokens, s) > 0}
  IN IF starts = {} THEN <<0, 0>>
     ELSE <<Min(starts), OwnerMatch(token, tokens, Min(starts))>>

\* How many tokens that all the labels share repeat the owner's name; none may
\* be left empty.
RemovablePrefix(owner, labels) ==
  LET common == LongestCommonPrefix(ToSet(labels))
      Consume(s, token) ==
        LET m == NextMatch(token, OwnerTokens[owner], s.from)
        IN IF s.over \/ m[2] = 0
           THEN [s EXCEPT !.over = TRUE]
           ELSE [s EXCEPT !.length = @ + 1, !.from = m[1] + m[2]]
  IN IF \E label \in ToSet(labels) : Len(label) = Len(common)
     THEN 0
     ELSE FoldLeft(Consume, [length |-> 0, from |-> 1, over |-> FALSE], common).length

\* The tables: 39 owners with a prefix, three targets that no rule gives, two
\* targets that are keywords.
HasListedPrefix(owner) == owner \in DOMAIN OwnerPrefixes
IsExplicit(owner, label) == <<owner, label>> \in DOMAIN ExplicitTargets
IsReserved(target) == target \in DOMAIN ReservedTargets

\* The owner's listed prefix is taken off whatever begins with its letters.
WithoutListed(owner, label) ==
  IF ~HasListedPrefix(owner) THEN label
  ELSE LET prefix == OwnerPrefixes[owner] IN
    IF Head(label) = prefix /\ Len(label) > 1 THEN Tail(label)
    ELSE IF <<prefix, Head(label)>> \in DOMAIN Rest
         THEN <<Rest[<<prefix, Head(label)>>]>> \o Tail(label)
         ELSE label

\* The positional unwrapper of a newtype keeps its name.
Unwrapper(d) == d.kind = "newtype" /\ Len(d.fields) = 1 /\ Head(d.fields[1].label) = "un"

TargetName(d, label) ==
  LET shared == RemovablePrefix(d.owner, [i \in DOMAIN d.fields |-> d.fields[i].label])
      stripped == IF Unwrapper(d) THEN label ELSE SubSeq(label, shared + 1, Len(label))
      listed == IF stripped = label THEN WithoutListed(d.owner, label) ELSE stripped
      target == IF IsExplicit(d.owner, label)
                THEN ExplicitTargets[<<d.owner, label>>] ELSE listed
  IN IF IsReserved(target) THEN ReservedTargets[target] ELSE target

-----------------------------------------------------------------------------
(* The documents *)

\* Mutant: both columns are computed from the source.
Retained_ByLabel(rows, d, label) == label

\* historical_names: the released label the written rows have for this owner and
\* target (of several the last), or else the label of the source.
Retained(rows, d, label) ==
  LET at == {i \in DOMAIN rows : rows[i].owner = d.owner /\ rows[i].target = TargetName(d, label)}
  IN IF at = {} THEN label ELSE rows[Max(at)].current

RecordField(d, f) == [declaration |-> d, field |-> f]

\* parse_fields: the fields of a manifest's declarations, in order.
FieldsOf(m) ==
  FlattenSeq([i \in DOMAIN source |->
    IF source[i].manifest # m THEN <<>>
    ELSE [j \in DOMAIN source[i].fields |-> RecordField(source[i], source[i].fields[j])]])

Row(rows, f) ==
  [owner |-> f.declaration.owner,
   target |-> TargetName(f.declaration, f.field.label),
   current |-> Retained(rows, f.declaration, f.field.label)]

\* package_document: a row for each field.
Rows(m) == LET fs == FieldsOf(m) IN [i \in DOMAIN fs |-> Row(documents[m].rows, fs[i])]

\* A use of a label shows one owner's target only if all its owners agree.
Remedies(m) ==
  LET fs == ToSet(FieldsOf(m))
      Targets(label) == {TargetName(f.declaration, label) : f \in {g \in fs : g.field.label = label}}
  IN {[label |-> f.field.label, targets |-> Targets(f.field.label)] : f \in fs}

\* generated_document has the uses of the labels as well.
Document(m) ==
  [rows |-> Rows(m),
   remedies |-> IF m = "generated" THEN Remedies(m) ELSE {}]

-----------------------------------------------------------------------------
Declaration(i, fields) ==
  [manifest |-> Records[i].manifest, owner |-> Records[i].owner, kind |-> Records[i].kind,
   fields |-> fields]

RecordsInit ==
  /\ source = [i \in DOMAIN Records |->
       Declaration(i, [j \in DOMAIN Records[i].labels |->
                         [label |-> Records[i].labels[j], was |-> Records[i].labels[j]]])]
  /\ documents = [m \in Manifests |-> [rows |-> <<>>, remedies |-> {}]]
  /\ drift = "none"
  /\ reworks = 0

\* The script without --check overwrites both documents.
Regenerate ==
  /\ documents' = [m \in Manifests |-> Document(m)]
  /\ drift' = "none"
  /\ UNCHANGED <<source, reworks>>

\* --check compares them with the files, which stay as they are.
CheckDrift ==
  /\ drift' = IF \A m \in Manifests : documents[m] = Document(m) THEN "current" ELSE "stale"
  /\ UNCHANGED <<source, documents, reworks>>

Rework(i, fields) ==
  /\ reworks < MaxRecordEdits
  /\ reworks' = reworks + 1
  /\ fields # <<>>
  /\ source' = [source EXCEPT ![i].fields = fields]
  /\ drift' = "none"
  /\ UNCHANGED documents

\* The source takes over the targets its manifest lists for a declaration.
Adopt(i) ==
  LET d == source[i]
      rows == ToSet(documents[d.manifest].rows)
      Listed(f) == {r \in rows : r.owner = d.owner /\ r.current = f.label}
  IN /\ \A f \in ToSet(d.fields) : Listed(f) # {}
     /\ Rework(i, [j \in DOMAIN d.fields |->
          [d.fields[j] EXCEPT !.label = (CHOOSE r \in Listed(d.fields[j]) : TRUE).target]])

AddField(i, label) ==
  /\ \A f \in ToSet(source[i].fields) : f.label # label
  /\ Rework(i, Append(source[i].fields, [label |-> label, was |-> NoLabel]))

DropField(i, j) == Rework(i, RemoveAt(source[i].fields, j))

RecordsNext ==
  \/ Regenerate \/ CheckDrift
  \/ \E i \in DOMAIN source :
       \/ Adopt(i)
       \/ \E label \in NewLabels : AddField(i, label)
       \/ \E j \in DOMAIN source[i].fields : DropField(i, j)

RecordsSpec == RecordsInit /\ [][RecordsNext]_recordVars

-----------------------------------------------------------------------------
(* Correctness *)

\* "Retain the released spelling while deriving all live facts from source"
\* (historical_names): a manifest that passes its check names, for every field
\* the release had, the label it had there, whatever was adopted, added, dropped
\* and regenerated in between.
ReleasedSpellingKept ==
  drift = "current" =>
    \A m \in Manifests : LET fs == FieldsOf(m) IN
      \A i \in DOMAIN fs :
        fs[i].field.was # NoLabel => documents[m].rows[i].current = fs[i].field.was

\* `origin' gives every label of the i-th declaration the label it was made from.
\* Among these fields a label keeps its origin when it gets its target, and what
\* has been adopted is its own target.
TargetsStable(i, origin, fields) ==
  \A f \in ToSet(fields) : LET target == TargetName(Declaration(i, fields), f.label) IN
    /\ target \in DOMAIN origin
    /\ origin[target] = origin[f.label]
    /\ f.label # origin[f.label] => target = f.label
=============================================================================
