------------------------------- MODULE Client -------------------------------
(***************************************************************************)
(* MalachiteClient: what a download from the storage returns.  The engine  *)
(* calls it instead of a network client.  Each fetch holds the read lock   *)
(* from its start to its end.                                              *)
(***************************************************************************)
EXTENDS Storage

ByHash(h) == [by |-> "hash", hash |-> h]
ByNumber(n) == [by |-> "number", number |-> n]
Directions == {"Falling", "Rising"}

\* header_by_hash_or_number
HeaderByHashOrNumber(b) ==
    IF b.by = "hash" THEN HeaderByHash(b.hash) ELSE HeaderByNumber(b.number)

\* Mutant: downwards by number too.
Onward_ByNumber(header, direction) ==
    ByNumber(IF direction = "Falling" THEN header.number - 1 ELSE header.number + 1)
Onward(header, direction) ==
    IF direction = "Falling" THEN ByHash(header.parent) ELSE ByNumber(header.number + 1)

\* A start given by number is first turned into a hash.
StartOf(start) ==
    IF start.by = "hash" THEN {start} ELSE {ByHash(h) : h \in BlockHash(start.number)}

\* What is found where a turn of the loop looks.
Found(places) == UNION {HeaderByHashOrNumber(b) : b \in places}

\* The loop of fetch_headers: what each turn finds.  A turn that finds nothing
\* breaks, and then so does every later one.
Turns(start, limit, direction) ==
    LET turn[i \in 1..limit] ==
          Found(IF i = 1 THEN StartOf(start)
                ELSE {Onward(header, direction) : header \in turn[i - 1]})
    IN turn

FetchHeaders(start, limit, direction) ==
    LET turns == Turns(start, limit, direction)
    IN [i \in 1..Cardinality({j \in 1..limit : turns[j] # {}}) |->
           CHOOSE header \in turns[i] : TRUE]

\* The bodies up to the first hash that has none.
FetchBodies(hashes) ==
    LET have == CHOOSE k \in 0..Len(hashes) :
                    /\ \A j \in 1..k : hashes[j] \in DOMAIN bodies
                    /\ k < Len(hashes) => hashes[k + 1] \notin DOMAIN bodies
    IN [j \in 1..have |-> bodies[hashes[j]]]
=============================================================================
