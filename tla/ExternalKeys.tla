--------------------------- MODULE ExternalKeys ---------------------------
(***************************************************************************)
(* The typed external identifiers of sameas and the pure functions that    *)
(* order them: the kind registry (kind.rs) and anchor selection            *)
(* (anchor.rs).  A strong key is a whole "kind:value" string, a single     *)
(* value here; normalisation has already happened when one exists.         *)
(***************************************************************************)
EXTENDS Integers

CONSTANTS
  Identity,     \* strong keys that name one thing: wikidata, imdb, place ids, ...
  Affiliation,  \* strong keys several things may share: domains
  Phones,       \* weak keys: corroborators outside the union-find
  Kind,         \* Kind[k]: the registry tag of a strong key
  Rank,         \* Rank[k]: anchor_key_rank of the key's kind, lower is stronger
  Pos,          \* Pos[k]: position of the key string in string order
  Hash,         \* Hash[k]: the 32-bit FNV-1a hash of the key string
  MaxProbes,    \* how many suffixed canonical ids a split may probe
  NoKey,        \* no anchor: the entity row does not exist
  NoCid         \* no owner: the key has no node row

StrongKeys == Identity \cup Affiliation

(***************************************************************************)
(* Canonical ids.  <<h, 0>> is "cx_h" and <<h, n>> is "cx_h_n".            *)
(***************************************************************************)
Cids == {Hash[k] : k \in StrongKeys} \X (0 .. MaxProbes)

CidOf(k) == <<Hash[k], 0>>

ASSUME KeysAssumption ==
  /\ Identity \cap Affiliation = {}
  /\ DOMAIN Kind = StrongKeys
  /\ Rank \in [StrongKeys -> Nat]
  /\ Pos \in [StrongKeys -> Nat]
  /\ \A j, k \in StrongKeys : Pos[j] = Pos[k] => j = k
  /\ Hash \in [StrongKeys -> Nat]
  /\ MaxProbes \in Nat
  /\ NoKey \notin StrongKeys
  /\ NoCid \notin Cids

\* No two keys share a 32-bit hash.  A hypothesis of some theorems and of most
\* runs, not an assumption of the model.
HashInjective == \A j, k \in StrongKeys : Hash[j] = Hash[k] => j = k

-----------------------------------------------------------------------------
(***************************************************************************)
(* anchor.rs                                                               *)
(***************************************************************************)

\* The order of grain_anchor's min_by: registry rank, ties on the key string.
Stronger(j, k) ==
  \/ Rank[j] < Rank[k]
  \/ Rank[j] = Rank[k] /\ Pos[j] < Pos[k]

IsStrongest(k, S) == k \in S /\ \A j \in S \ {k} : Stronger(k, j)

\* entity_anchor: the strongest Identity key, else the strongest Affiliation key.
IsEntityAnchor(k, S) ==
  IF S \cap Identity # {}
    THEN IsStrongest(k, S \cap Identity)
    ELSE IsStrongest(k, S)

\* canonical ids compare as strings: hash first, an unsuffixed id before its suffixes.  Suffixes
\* compare as numbers here, which is the same up to the ninth.
CidBefore(c, d) ==
  \/ c[1] < d[1]
  \/ c[1] = d[1] /\ c[2] < d[2]

\* Both sides carry identity keys and share none: two distinct things.
IdentityConflict(S, T) ==
  /\ S \cap Identity # {}
  /\ T \cap Identity # {}
  /\ S \cap T \cap Identity = {}

\* Some identity key of S and one of T are of one kind and different values:
\* the guard of the correction operations.
SameKindConflict(S, T) ==
  \E j \in S \cap Identity, k \in T \cap Identity : j # k /\ Kind[j] = Kind[k]
=============================================================================
