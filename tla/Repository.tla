----------------------------- MODULE Repository -----------------------------
(***************************************************************************)
(* Repository<I, R> of influxdb3_catalog/src/catalog.rs: the collection    *)
(* every catalog level is kept in (nodes, databases, tables, tokens).      *)
(*                                                                         *)
(* A repository value is a record                                          *)
(*    repo         the store, a function from identifiers to resources     *)
(*    id_name_map  the BiHashMap of identifiers and names, a function from *)
(*                 identifiers to names that is always injective           *)
(*    next_id      the identifier the next new resource will get           *)
(*                                                                         *)
(* The insertion order SerdeVecMap keeps is left out: it only shows in     *)
(* the order of iteration.  A resource is any record with a `name` field.  *)
(* An operation that can fail returns a result record: `err` is "Ok", the  *)
(* name of the CatalogError, or "Panic" for a failed assert!/expect.       *)
(***************************************************************************)
EXTENDS Naturals, FiniteSets

CONSTANT NONE       \* Option::None, and the value of a failed result

Ok(v)    == [err |-> "Ok", val |-> v]
Err(e)   == [err |-> e, val |-> NONE]
Panic    == Err("Panic")
IsOk(r)  == r.err = "Ok"

-----------------------------------------------------------------------------
(* BiHashMap, as far as the repository uses it *)

EmptyMap == [i \in {} |-> NONE]

\* BiHashMap::insert: a pair that shares its left or its right value with
\* the new one is removed, whichever identifier it belonged to.
BiInsert(m, l, r) ==
    LET kept == {i \in DOMAIN m : i # l /\ m[i] # r}
    IN  [i \in kept \cup {l} |-> IF i = l THEN r ELSE m[i]]

BiRemoveByLeft(m, l) == [i \in DOMAIN m \ {l} |-> m[i]]

BiGetByRight(m, r) ==
    IF \E i \in DOMAIN m : m[i] = r THEN CHOOSE i \in DOMAIN m : m[i] = r ELSE NONE

\* IndexMap::insert and shift_remove, without the order
MapPut(f, k, v) == [i \in DOMAIN f \cup {k} |-> IF i = k THEN v ELSE f[i]]
MapRemove(f, k) == [i \in DOMAIN f \ {k} |-> f[i]]

-----------------------------------------------------------------------------
(* Repository *)

NewRepository == [repo |-> EmptyMap, id_name_map |-> EmptyMap, next_id |-> 0]

\* get_and_increment_next_id: the identifier handed out and the repository
\* after it.  The cursor moves whether or not the resource is ever inserted.
NextIdOf(R)     == R.next_id
BumpNextId(R)   == [R EXCEPT !.next_id = @ + 1]

NameToId(R, name)     == BiGetByRight(R.id_name_map, name)
IdToName(R, id)       == IF id \in DOMAIN R.id_name_map THEN R.id_name_map[id] ELSE NONE
GetById(R, id)        == IF id \in DOMAIN R.repo THEN R.repo[id] ELSE NONE
GetByName(R, name)    == GetById(R, NameToId(R, name))
ContainsId(R, id)     == id \in DOMAIN R.repo
ContainsName(R, name) == \E i \in DOMAIN R.id_name_map : R.id_name_map[i] = name

\* The assert_eq! of id_exists fails: the identifier is in one of the two
\* maps and not in the other.
IdExistsPanics(R, id) == (id \in DOMAIN R.id_name_map) # (id \in DOMAIN R.repo)

InsertKeepsNextId(R, id, resource) ==
    CASE IdExistsPanics(R, id) -> Panic
      [] ContainsId(R, id) /\ ContainsName(R, resource.name) -> Err("AlreadyExists")
      [] OTHER -> Ok([repo        |-> MapPut(R.repo, id, resource),
                      id_name_map |-> BiInsert(R.id_name_map, id, resource.name),
                      next_id     |-> R.next_id])

\* insert: refused when the identifier is known and the name is known (to
\* any identifier); the cursor moves past the inserted identifier.
Insert(R, id, resource) ==
    CASE IdExistsPanics(R, id) -> Panic
      [] ContainsId(R, id) /\ ContainsName(R, resource.name) -> Err("AlreadyExists")
      [] OTHER -> Ok([repo        |-> MapPut(R.repo, id, resource),
                      id_name_map |-> BiInsert(R.id_name_map, id, resource.name),
                      next_id     |-> IF R.next_id <= id THEN id + 1 ELSE R.next_id])

\* update: the identifier must exist; the name may change.
Update(R, id, resource) ==
    CASE IdExistsPanics(R, id) -> Panic
      [] ~ContainsId(R, id) -> Err("NotFound")
      [] OTHER -> Ok([R EXCEPT !.repo = MapPut(@, id, resource),
                               !.id_name_map = BiInsert(@, id, resource.name)])

RemoveKeepsName(R, id) == [R EXCEPT !.repo = MapRemove(@, id)]

RemoveReleasesId(R, id) ==
    [R EXCEPT !.repo = MapRemove(@, id), !.id_name_map = BiRemoveByLeft(@, id),
              !.next_id = IF @ = id + 1 THEN id ELSE @]

\* remove: from both maps; the cursor stays.
Remove(R, id) ==
    [R EXCEPT !.repo = MapRemove(@, id), !.id_name_map = BiRemoveByLeft(@, id)]

Resources(R) == {R.repo[i] : i \in DOMAIN R.repo}

-----------------------------------------------------------------------------
(* What the code's assert and the data model say of every repository *)

\* The two maps hold the same identifiers, and each name is the name of
\* the resource stored under its identifier.
IdsAgree(R) ==
    /\ DOMAIN R.id_name_map = DOMAIN R.repo
    /\ \A i \in DOMAIN R.repo : R.id_name_map[i] = R.repo[i].name

\* No stored identifier is at or past the cursor: a new identifier is new.
NextIdIsFresh(R) == \A i \in DOMAIN R.repo : i < R.next_id

=============================================================================
