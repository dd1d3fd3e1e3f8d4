------------------------------- MODULE Engine -------------------------------
(***************************************************************************)
(* The execution engine of reth, which is not part of the repository.  It  *)
(* is modelled from how the task and the client use it: it answers each    *)
(* fork choice update over the oneshot channel that came with it, SYNCING  *)
(* while it lacks the block, and meanwhile downloads the missing blocks    *)
(* through the client and executes them.                                   *)
(***************************************************************************)
EXTENDS Client

CONSTANT MaxErrors    \* bound: how often the engine answers with an error

ASSUME MaxErrorsAssumption == MaxErrors \in Nat

VARIABLES
    fcu,        \* the fork choice update in the engine's channel, if any
    reply,      \* the answer in the oneshot channel, if any
    target,     \* the block to download, if any
    fetched,    \* the headers received, while their bodies are outstanding
    imported,   \* the blocks executed by the engine
    badBlocks,  \* the blocks it has found invalid
    latest,     \* the block whose state provider.latest() returns
    errors,     \* how many errors the engine has answered
    wakers,     \* what the task has registered its waker with
    woken       \* the task is scheduled to be polled

engineVars == <<fcu, reply, target, fetched, imported, badBlocks, latest, errors>>

EngineInit ==
    /\ fcu = {} /\ reply = {} /\ target = {} /\ fetched = <<>>
    /\ imported = {HashOf(StartHeader)}
    /\ badBlocks = {}
    /\ latest = HashOf(StartHeader)
    /\ errors = 0

Replies == {"Valid", "Invalid", "Syncing", "Err"}

Wake(source) ==
    /\ woken' = (woken \/ source \in wakers)
    /\ wakers' = wakers \ {source}

Answer(h) ==
    IF h \in imported THEN "Valid" ELSE IF h \in badBlocks THEN "Invalid" ELSE "Syncing"

ForkchoiceUpdated ==
    /\ Running("engine")
    /\ \E h \in fcu :
         \/ /\ reply' = {Answer(h)}
            /\ latest' = IF Answer(h) = "Valid" THEN h ELSE latest
            /\ target' = IF Answer(h) = "Syncing" THEN {h} ELSE target
            /\ UNCHANGED errors
         \/ /\ errors < MaxErrors
            /\ reply' = {"Err"}
            /\ errors' = errors + 1
            /\ UNCHANGED <<latest, target>>
    /\ fcu' = {}
    /\ Wake("engine")
    /\ UNCHANGED <<status, channels, storageVars, fetched, imported, badBlocks>>

\* Each of the two requests of a download waits for the read lock.
StartDownload ==
    /\ Running("engine")
    /\ target # {} /\ lock = "free"
    /\ lock' = "read"
    /\ UNCHANGED <<status, channels, storageInner, engineVars, wakers, woken>>

\* The headers from block h down to the first one whose parent is known.
Missing(found) ==
    LET linked == {i \in DOMAIN found : found[i].parent \in imported}
    IN IF linked = {} THEN <<>>
       ELSE SubSeq(found, 1, CHOOSE i \in linked : \A j \in linked : i <= j)

\* MalachiteConsensus, which the engine asks about every header and block: all its
\* checks accept whatever they are given.
ValidateBlock(header, body) == TRUE

\* Executing the body on the state of the parent gives the root of the header.
GoodBlock(header, body) ==
    /\ ValidateBlock(header, body)
    /\ header.txs = body
    /\ Executable(body, StateAfter(header.parent))
    /\ header.root = StateAfter(header.parent) \cup body

FreeLock ==
    /\ lock' = "free"
    /\ Wake("lock")

\* The first request has been answered.  Until the second one holds the lock, the
\* task may insert the next block.
ReceiveHeaders ==
    /\ Running("engine")
    /\ lock = "read" /\ fetched = <<>>
    /\ \E h \in target :
         fetched' = Missing(FetchHeaders(ByHash(h), bestBlock + 1, "Falling"))
    /\ FreeLock
    /\ UNCHANGED <<status, channels, storageInner, fcu, reply, target, imported,
                   badBlocks, latest, errors>>

\* The bodies of headers that have been received end the download, and the blocks
\* are executed; the one still asked for may become the latest at once.  A download
\* that is cut short leaves the target to be tried again.
FinishDownload ==
    /\ Running("engine")
    /\ lock = "read" /\ fetched # <<>>
    /\ \E hashes \in {[i \in DOMAIN fetched |-> HashOf(fetched[i])]} :
       \E received \in {FetchBodies(hashes)} :
            IF Len(received) < Len(fetched)
            THEN UNCHANGED <<target, imported, badBlocks, latest>>
            ELSE /\ target' = target \ {hashes[1]}
                 /\ IF \A i \in DOMAIN fetched : GoodBlock(fetched[i], received[i])
                    THEN /\ imported' = imported \cup Range(hashes)
                         /\ latest' \in {latest} \cup (target \cap {hashes[1]})
                         /\ UNCHANGED badBlocks
                    ELSE /\ badBlocks' = badBlocks \cup {hashes[1]}
                         /\ UNCHANGED <<imported, latest>>
    /\ fetched' = <<>>
    /\ FreeLock
    /\ UNCHANGED <<status, channels, storageInner, fcu, reply, errors>>

Downloads == StartDownload \/ ReceiveHeaders \/ FinishDownload

EngineNext == ForkchoiceUpdated \/ Downloads

\* The engine ends, and with it the oneshot sender the task waits for.
EngineEnds ==
    /\ Running("engine")
    /\ Ends("engine", "stopped")
    /\ lock' = IF lock = "read" THEN "free" ELSE lock
    /\ fcu' = {}
    /\ woken' = (woken \/ wakers \cap {"engine", "lock"} # {})
    /\ wakers' = wakers \ {"engine", "lock"}
    /\ UNCHANGED <<channels, storageInner, reply, target, fetched, imported,
                   badBlocks, latest, errors>>

EngineTypeOK ==
    /\ fcu \in SUBSET Hashes /\ target \in SUBSET Hashes
    /\ reply \in SUBSET Replies /\ fetched \in Seq(Headers)
    /\ imported \in SUBSET Hashes /\ badBlocks \in SUBSET Hashes
    /\ latest \in Hashes
    /\ errors \in 0..MaxErrors
    /\ wakers \in SUBSET {"channel", "engine", "lock"}
    /\ woken \in BOOLEAN
=============================================================================
