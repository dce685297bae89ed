------------------------------- MODULE SmartDiff -------------------------------
(***************************************************************************)
(* The differ (synchrotron-diff): the structural comparison of a desired   *)
(* manifest with the live object, the rules that ignore changes, and the   *)
(* split of what is left into drift (ours to correct) and information      *)
(* (another field manager's).  The API server (external) is the live       *)
(* object and its managedFields: our applies and other managers' edits     *)
(* change both.                                                            *)
(*                                                                         *)
(* A value is a map, a list or a scalar, tagged; a path is a sequence of   *)
(* segments <<"f", field>>, <<"i", index>> or <<"k", key values>>.  A      *)
(* manager's fieldsV1 tree is the set of its leaf paths as the server      *)
(* writes them: a key value that is a number is bare, any other is quoted, *)
(* and an element of a set is <<"v", value>>.                              *)
(***************************************************************************)
EXTENDS Naturals, Sequences, FiniteSets

CONSTANTS ListMaps,     \* list-map patterns and the keys of their elements
          SetLists,     \* the lists that are sets to the server, by their field names
          Numbers,      \* the scalars that are numbers
          Desireds,     \* the manifests git may ask for, normalized by the server
          OurManager,   \* the field manager we apply under
          Others,       \* the other field managers
          Edits,        \* what others write: [path, value]
          RuleSets,     \* the ignore rules a user may have configured
          Claims,       \* the paths an autoscaler may claim
          NoField,      \* no value at a path
          MaxEdits

ASSUME DiffAssumption == MaxEdits \in Nat /\ OurManager \notin Others

VARIABLES desired, live,
          managed,     \* metadata.managedFields: [manager, fields], in its order
          userRules, autoRules,
          editsMade

diffVars == <<desired, live, managed, userRules, autoRules, editsMade>>

Prefix(p, q) == Len(p) <= Len(q) /\ SubSeq(q, 1, Len(p)) = p

-----------------------------------------------------------------------------
(* compare.rs and listmap.rs *)

(* render_for_match: list elements of any sort are stars. *)
Rendered(path) == [i \in DOMAIN path |-> IF path[i][1] = "f" THEN path[i][2] ELSE "*"]

PatternMatches(pattern, names) ==
    /\ Len(pattern) = Len(names)
    /\ \A i \in DOMAIN names : pattern[i] \in {"*", names[i]}

(* keys_for: the keys of a registered list-map, <<>> for an ordinary list. *)
KeysFor(path) ==
    LET found == {m \in ListMaps : PatternMatches(m.pattern, Rendered(path))}
    IN IF found = {} THEN <<>> ELSE (CHOOSE m \in found : TRUE).keys

(* extract_keys: a missing key reads as the empty string. *)
ExtractKeys(v, keys) ==
    [i \in DOMAIN keys |-> IF keys[i] \in DOMAIN v.map THEN v.map[keys[i]].scalar ELSE ""]

(* Mutant: list-map elements pair up by position. *)
SamePlace(from, i, to, keys) == {j \in DOMAIN to : j = i}

(* Equal keys pair up in order: the n-th here with the n-th there. *)
Partner(from, i, to, keys) ==
    LET same(s, k) == {j \in DOMAIN s : ExtractKeys(s[j], keys) = k}
        key == ExtractKeys(from[i], keys)
        rank == Cardinality({j \in same(from, key) : j < i})
    IN {j \in same(to, key) : Cardinality({x \in same(to, key) : x < j}) = rank}

RECURSIVE DiffValue(_, _, _)

(* diff_listmap *)
DiffListmap(d, l, keys, path) ==
    LET at(s, i) == Append(path, <<"k", ExtractKeys(s[i], keys)>>)
    IN UNION {IF Partner(d, i, l, keys) = {}
              THEN {[op |-> "Added", path |-> at(d, i)]}
              ELSE UNION {DiffValue(d[i], l[j], at(d, i)) : j \in Partner(d, i, l, keys)} :
                i \in DOMAIN d}
       \cup {[op |-> "Removed", path |-> at(l, j)] :
               j \in {x \in DOMAIN l : Partner(l, x, d, keys) = {}}}

(* diff_positional *)
DiffPositional(d, l, path) ==
    UNION {CASE i \notin DOMAIN l -> {[op |-> "Added", path |-> Append(path, <<"i", i>>)]}
             [] i \notin DOMAIN d -> {[op |-> "Removed", path |-> Append(path, <<"i", i>>)]}
             [] OTHER -> DiffValue(d[i], l[i], Append(path, <<"i", i>>)) :
             i \in DOMAIN d \cup DOMAIN l}

(* Maps by field *)
DiffMap(d, l, path) ==
    UNION {CASE k \notin DOMAIN l -> {[op |-> "Added", path |-> Append(path, <<"f", k>>)]}
             [] k \notin DOMAIN d -> {[op |-> "Removed", path |-> Append(path, <<"f", k>>)]}
             [] OTHER -> DiffValue(d[k], l[k], Append(path, <<"f", k>>)) :
             k \in DOMAIN d \cup DOMAIN l}

DiffValue(d, l, path) ==
    IF DOMAIN d = DOMAIN l /\ "map" \in DOMAIN d THEN DiffMap(d.map, l.map, path)
    ELSE IF DOMAIN d = DOMAIN l /\ "list" \in DOMAIN d
         THEN IF KeysFor(path) = <<>> THEN DiffPositional(d.list, l.list, path)
              ELSE DiffListmap(d.list, l.list, KeysFor(path), path)
    ELSE IF d = l THEN {} ELSE {[op |-> "Modified", path |-> path]}

(* Server-written fields never count. *)
StripExcluded(body) ==
    [map |-> [k \in DOMAIN body.map \ {"status"} |->
                IF k = "metadata"
                THEN [map |-> [f \in DOMAIN body.map[k].map \ {"generation"} |->
                                 body.map[k].map[f]]]
                ELSE body.map[k]]]

Diff(d, l) == DiffValue(StripExcluded(d), StripExcluded(l), <<>>)

-----------------------------------------------------------------------------
(* managed_fields.rs, ignore.rs, ownership.rs *)

(* The candidate keys of fields_v1_owns: every key value is quoted, a position is an index. *)
CandidateKeys(path) ==
    [i \in DOMAIN path |->
       IF path[i][1] = "k"
       THEN <<"k", [n \in DOMAIN path[i][2] |-> <<"quoted", path[i][2][n]>>]>>
       ELSE path[i]]

(* Does a path lead to a node of the tree, or below one of its leaves? *)
Covers(fields, path) == \E f \in fields : Prefix(path, f) \/ Prefix(f, path)

FieldsOwn(fields, path) == Covers(fields, CandidateKeys(path))

(* owner_of: the first entry in managedFields order. *)
OwnerOf(path) ==
    LET owning == {i \in DOMAIN managed : FieldsOwn(managed[i].fields, path)}
    IN IF owning = {} THEN NoField
       ELSE managed[CHOOSE i \in owning : \A j \in owning : i <= j].manager

(* path_glob_matches: a star stands for one segment; nothing below the path matches. *)
GlobMatches(glob, path) ==
    /\ Len(glob) = Len(path)
    /\ \A i \in DOMAIN path : glob[i] = "*" \/ (path[i][1] = "f" /\ glob[i] = path[i][2])

(* path_to_json_pointer: a keyed element is named by its first key. *)
Pointer(path) ==
    [i \in DOMAIN path |-> CASE path[i][1] = "f" -> <<path[i][2]>>
                             [] path[i][1] = "i" -> <<"index", path[i][2]>>
                             [] path[i][1] = "k" -> <<path[i][2][1]>>]

RuleMatches(r, path) ==
    CASE r.kind = "JsonPointer" -> Pointer(path) = r.path
      [] r.kind = "PathGlob" -> GlobMatches(r.path, path)
      [] r.kind = "ManagerAllowlist" ->
           \E i \in DOMAIN managed : managed[i].manager \in r.managers
                                     /\ FieldsOwn(managed[i].fields, path)

Ignored(path) == \E r \in autoRules \cup userRules : RuleMatches(r, path)

(* SmartDiffPipeline::evaluate, after the dry-run. *)
Kept == {c \in Diff(desired, live) : ~Ignored(c.path)}
Drift == {c \in Kept : OwnerOf(c.path) \in {OurManager, NoField}}
Informational == Kept \ Drift

-----------------------------------------------------------------------------
(* The API server: values, leaves and ownership. *)
RECURSIVE Leaves(_, _)
Leaves(v, path) ==
    IF "map" \in DOMAIN v
    THEN UNION {Leaves(v.map[k], Append(path, <<"f", k>>)) : k \in DOMAIN v.map}
    ELSE IF "list" \in DOMAIN v /\ KeysFor(path) # <<>>
    THEN UNION {Leaves(v.list[i], Append(path, <<"k", ExtractKeys(v.list[i], KeysFor(path))>>)) :
                  i \in DOMAIN v.list}
    ELSE {[path |-> path, value |-> v]}

PathsOf(v) == {x.path : x \in Leaves(v, <<>>)}

(* A path and a leaf as the server records them in fieldsV1. *)
FieldsV1Path(path) ==
    [i \in DOMAIN path |->
       IF path[i][1] = "k"
       THEN <<"k", [n \in DOMAIN path[i][2] |->
                      <<IF path[i][2][n] \in Numbers THEN "bare" ELSE "quoted", path[i][2][n]>>]>>
       ELSE path[i]]
FieldsV1Leaf(x) ==
    IF Rendered(x.path) \in SetLists
    THEN {Append(FieldsV1Path(x.path), <<"v", x.value.list[i]>>) : i \in DOMAIN x.value.list}
    ELSE {FieldsV1Path(x.path)}
FieldsV1(v, path) == UNION {FieldsV1Leaf(x) : x \in Leaves(v, path)}

RECURSIVE SetAt(_, _, _, _)
(* Set a field, or append a list-map element, at the end of a path below path at. *)
SetAt(v, at, path, new) ==
    IF path = <<>> THEN new
    ELSE LET seg == path[1]
             below(w) == SetAt(w, Append(at, seg), Tail(path), new)
    IN IF seg[1] = "f"
    THEN [map |-> [k \in DOMAIN v.map \cup {seg[2]} |->
                     IF k # seg[2] THEN v.map[k]
                     ELSE IF k \in DOMAIN v.map THEN below(v.map[k]) ELSE new]]
    ELSE LET here == {i \in DOMAIN v.list : ExtractKeys(v.list[i], KeysFor(at)) = seg[2]}
         IN IF here = {} THEN [list |-> Append(v.list, new)]
            ELSE [list |-> [i \in DOMAIN v.list |->
                              IF i \in here THEN below(v.list[i]) ELSE v.list[i]]]
WithValue(v, path, new) == SetAt(v, <<>>, path, new)

(* Git moves, or the same object is asked for again. *)
Commit(d) ==
    /\ d # desired
    /\ desired' = d
    /\ UNCHANGED <<live, managed, userRules, autoRules, editsMade>>

(* Another manager forces a value: it owns the field and nobody else does. *)
Takes(m, e) ==
    [i \in DOMAIN managed |->
       [managed[i] EXCEPT !.fields =
          {f \in @ : ~Prefix(FieldsV1Path(e.path), f)}
          \cup (IF managed[i].manager = m THEN FieldsV1(e.value, e.path) ELSE {})]]

EditLive(m, e) ==
    /\ editsMade < MaxEdits
    /\ \E p \in PathsOf(live) : Prefix(SubSeq(e.path, 1, Len(e.path) - 1), p)
    /\ WithValue(live, e.path, e.value) # live
    /\ live' = WithValue(live, e.path, e.value)
    /\ managed' = Takes(m, e)
    /\ editsMade' = editsMade + 1
    /\ UNCHANGED <<desired, userRules, autoRules>>

(* Another manager applies the value that is there: the field has two owners. *)
CoOwn(m, x) ==
    /\ editsMade < MaxEdits
    /\ managed' = [i \in DOMAIN managed |->
                     IF managed[i].manager = m
                     THEN [managed[i] EXCEPT !.fields = @ \cup FieldsV1Leaf(x)] ELSE managed[i]]
    /\ managed' # managed
    /\ editsMade' = editsMade + 1
    /\ UNCHANGED <<desired, live, userRules, autoRules>>

(* A webhook or a controller writes the containers in another order. *)
Reorder(path) ==
    /\ editsMade < MaxEdits
    /\ LET old == live.map["spec"].map["containers"].list
           n == Len(old)
       IN live' = WithValue(live, path, [list |-> [i \in 1..n |-> old[n + 1 - i]]])
    /\ live' # live
    /\ editsMade' = editsMade + 1
    /\ UNCHANGED <<desired, managed, userRules, autoRules>>

(* The discovery of module Scalers replaces its cache. *)
ScalerClaims(paths) ==
    /\ autoRules' = {[kind |-> "PathGlob", path |-> p] : p \in paths}
    /\ autoRules' # autoRules
    /\ UNCHANGED <<desired, live, managed, userRules, editsMade>>

DiffInit ==
    /\ desired \in Desireds
    /\ live = WithValue(desired, <<<<"f", "status">>>>, [scalar |-> "observed"])
    /\ LET ours == [manager |-> OurManager, fields |-> FieldsV1(desired, <<>>)]
           none(m) == [manager |-> m, fields |-> {}]
       IN managed \in UNION {{<<ours, none(m)>>, <<none(m), ours>>} : m \in Others}
    /\ userRules \in RuleSets
    /\ autoRules = {}
    /\ editsMade = 0

DiffNext ==
    \/ \E d \in Desireds : Commit(d)
    \/ \E m \in Others, e \in Edits : EditLive(m, e)
    \/ \E m \in Others, x \in Leaves(desired, <<>>) : x \in Leaves(live, <<>>) /\ CoOwn(m, x)
    \/ Reorder(<<<<"f", "spec">>, <<"f", "containers">>>>)
    \/ \E paths \in SUBSET Claims : ScalerClaims(paths)

DiffSpec == DiffInit /\ [][DiffNext]_diffVars

-----------------------------------------------------------------------------
(* The fields at which the two objects really differ, list-maps by key. *)
DifferingPaths ==
    LET d == Leaves(StripExcluded(desired), <<>>)
        l == Leaves(StripExcluded(live), <<>>)
    IN {x.path : x \in (d \ l) \cup (l \ d)}

(* The managers the server has recorded for a field. *)
OwnersOf(path) == {managed[i].manager : i \in {j \in DOMAIN managed :
                                                  Covers(managed[j].fields, FieldsV1Path(path))}}

(* The field or the list element lies in an element keyed by a number, or in a set:   *)
(* the candidate key of fields_v1_owns is not the key the server wrote.               *)
NeverFound(path) ==
    \E i \in DOMAIN path :
        \/ path[i][1] = "k" /\ \E n \in DOMAIN path[i][2] : path[i][2][n] \in Numbers
        \/ path[i][1] = "i" /\ Rendered(SubSeq(path, 1, i - 1)) \in SetLists

(* A change and a differing field that are about the same thing. *)
About(c, p) == Prefix(c.path, p) \/ Prefix(p, c.path)

(* Every field that differs shows up in the diff, as itself or inside a    *)
(* larger change; every change that no rule hides has a differing field,   *)
(* so list-maps in another order and server-written fields report nothing; *)
(* a change whose fields are ours alone, or nobody's, is drift; and no     *)
(* change is drift whose fields all belong to others alone, unless it lies *)
(* in an element keyed by a number or in a set (OthersInformational).      *)
(* Nothing is promised of a field with several owners: owner_of takes the  *)
(* first entry, so it may count as theirs.                                 *)
DriftExact ==
    LET differing == DifferingPaths
        changes == Diff(desired, live)
        drift == Drift
    IN /\ \A p \in differing : \E c \in changes : About(c, p)
       /\ \A c \in Kept :
             LET about == {p \in differing : About(c, p)}
             IN /\ about # {}
                /\ (\A p \in about : OwnersOf(p) \subseteq {OurManager}) => c \in drift
                /\ (\A p \in about : OwnersOf(p) # {} /\ OurManager \notin OwnersOf(p))
                   => c \notin drift \/ NeverFound(c.path)

(* "A change to a field we don't own is, by definition, not drift from     *)
(* *our* desired state" (ownership.rs): a change whose fields all belong   *)
(* to others alone is information, whatever the list it lies in.           *)
OthersInformational ==
    \A c \in Kept :
        LET about == {p \in DifferingPaths : About(c, p)}
        IN about # {} /\ (\A p \in about : OwnersOf(p) # {} /\ OurManager \notin OwnersOf(p))
           => c \in Informational
=============================================================================
