---------------------------- MODULE SessionStore ----------------------------
(***************************************************************************)
(* What the authentication service asks of a session store (auth.Store):   *)
(* a session holds one token pair at a time, a rotation consumes exactly   *)
(* the pair it names, and neither a session nor a pair ever comes back.    *)
(* MemoryStore and RedisStore are shown to implement it by module Login.   *)
(***************************************************************************)
CONSTANTS SessionIds, Pairs, Users, None

VARIABLES
  sessions,   \* the session of every ID, or None
  stored      \* the session IDs and pairs that have ever been stored

vars == <<sessions, stored>>

Snapshot == [user : Users, pair : Pairs]

Init ==
  /\ sessions \in [SessionIds -> Snapshot \cup {None}]
  /\ stored = [ids |-> {id \in SessionIds : sessions[id] # None},
               pairs |-> {sessions[id].pair :
                            id \in {i \in SessionIds : sessions[i] # None}}]

\* Save of a new session: neither its ID nor its pair was ever in use.
Save(id, user, pair) ==
  /\ id \notin stored.ids
  /\ pair \notin stored.pairs
  /\ sessions' = [sessions EXCEPT ![id] = [user |-> user, pair |-> pair]]
  /\ stored' = [ids |-> stored.ids \cup {id}, pairs |-> stored.pairs \cup {pair}]

\* RotateRefresh: the session still holds the expected pair and keeps its user.
RotateRefresh(id, expected, next) ==
  /\ sessions[id] # None
  /\ sessions[id].pair = expected
  /\ next \notin stored.pairs
  /\ sessions' = [sessions EXCEPT ![id].pair = next]
  /\ stored' = [stored EXCEPT !.pairs = @ \cup {next}]

\* Revoke, RevokeUsers and expiry: sessions end, and stay ended because no
\* other operation brings an ID back.
Remove(ended) ==
  /\ \A id \in ended : sessions[id] # None
  /\ ended # {}
  /\ sessions' = [id \in SessionIds |-> IF id \in ended THEN None ELSE sessions[id]]
  /\ UNCHANGED stored

Next ==
  \/ \E id \in SessionIds, u \in Users, n \in Pairs : Save(id, u, n)
  \/ \E id \in SessionIds, n, m \in Pairs : RotateRefresh(id, n, m)
  \/ \E ended \in SUBSET SessionIds : Remove(ended)

Spec == Init /\ [][Next]_vars
=============================================================================
