---------------------------- MODULE MultiIndexMap ----------------------------
(***************************************************************************)
(* multi_index_unordered_map_t: a map with aliases for its keys.  A map m  *)
(* is a record: m.primary takes a key to its Record, of which `value' and  *)
(* `secondaries' (the aliases it has) are kept, and m.secondary takes an   *)
(* alias to the key of the Record its pointer leads to.  References to the *)
(* elements of an unordered_map stay valid until they are erased.  The     *)
(* overloads nothing in the repository calls are left out.                 *)
(***************************************************************************)

EmptyMap == [primary |-> <<>>, secondary |-> <<>>]

Without(f, x) == [y \in DOMAIN f \ {x} |-> f[y]]

Put(f, x, v) == [y \in DOMAIN f \cup {x} |-> IF y = x THEN v ELSE f[y]]

Contains(m, pkey) == pkey \in DOMAIN m.primary

ContainsAlias(m, skey) == skey \in DOMAIN m.secondary

\* The key of the Record an alias leads to.
KeyOf(m, skey) == m.secondary[skey]

\* A key that is there keeps its value.
Insert(m, pkey, value) ==
    IF Contains(m, pkey) THEN m
    ELSE [m EXCEPT !.primary = Put(@, pkey, [value |-> value, secondaries |-> {}])]

\* The value of a key, assigned through at().
Assign(m, pkey, value) == [m EXCEPT !.primary[pkey].value = value]

\* mutant: an alias that is taken is given to the new key
AliasSteals(m, pkey, skeys) ==
    [primary   |-> [m.primary EXCEPT ![pkey].secondaries = @ \cup skeys],
     secondary |-> [skey \in DOMAIN m.secondary \cup skeys |->
                       IF skey \in skeys THEN pkey ELSE m.secondary[skey]]]

\* mutant: the first alias that is taken ends the loop
AliasAllOrNone(m, pkey, skeys) ==
    IF skeys \cap DOMAIN m.secondary # {} THEN m ELSE AliasSteals(m, pkey, skeys)

\* alias(), for each of skeys: one that is taken stays with whom it belongs to.
Alias(m, pkey, skeys) ==
    LET new == skeys \ DOMAIN m.secondary
    IN  [primary   |-> [m.primary EXCEPT ![pkey].secondaries = @ \cup new],
         secondary |-> [skey \in DOMAIN m.secondary \cup new |->
                           IF skey \in new THEN pkey ELSE m.secondary[skey]]]

\* mutant: the aliases of the erased key are kept
EraseKeepsAliases(m, pkey) == [m EXCEPT !.primary = Without(@, pkey)]

Erase(m, pkey) ==
    IF ~Contains(m, pkey) THEN m
    ELSE [primary   |-> Without(m.primary, pkey),
          secondary |-> [skey \in DOMAIN m.secondary \ m.primary[pkey].secondaries |->
                            m.secondary[skey]]]

\* Both maps are partial functions.
IsMap(m, PKeys, SKeys, Values) ==
    \E P \in SUBSET PKeys, S \in SUBSET SKeys :
        m \in [primary   : [P -> [value : Values, secondaries : SUBSET SKeys]],
              secondary : [S -> PKeys]]

\* No alias dangles, and the aliases a Record lists are those that lead to it:
\* erase() removes what is listed, so a missing entry would leave one behind.
Consistent(m) ==
    /\ \A skey \in DOMAIN m.secondary :
           /\ Contains(m, KeyOf(m, skey))
           /\ skey \in m.primary[KeyOf(m, skey)].secondaries
    /\ \A pkey \in DOMAIN m.primary : \A skey \in m.primary[pkey].secondaries :
           ContainsAlias(m, skey) /\ KeyOf(m, skey) = pkey
=============================================================================
