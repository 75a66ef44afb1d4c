----------------------------- MODULE ReadCache -----------------------------
(***************************************************************************)
(* The read cache (infra/cache/read.py) of one tenant's value: entries     *)
(* under a window and a generation, the counter a write bumps once it has  *)
(* committed, and the reads between them.  A call to the cache may fail at *)
(* any time, as a refusal of the breaker or of a backend that is down: a   *)
(* get is a miss, a put and an increment are dropped.  The cache keeps a   *)
(* counter as long as its window, so what it was given is not lost.        *)
(***************************************************************************)
EXTENDS Naturals, FiniteSets, FiniteSetsExt

CONSTANTS
    Readers,
    MaxVersion,     \* bound on the writes of the source
    MaxWindow,      \* bound on the windows that begin
    Ttl,            \* how long an entry lives
    MaxFaults       \* bound on calls to the cache that fail

ReadCacheAssumption ==
    /\ {MaxVersion, MaxWindow, Ttl, MaxFaults} \subseteq Nat
    /\ Ttl > 0

VARIABLES
    source,     \* the version that is committed
    unbumped,   \* committed versions whose writer has yet to bump
    bumped,     \* the latest version whose bump landed
    window,     \* the window now falls in
    counts,     \* generation:<window>, zero when there is none
    entries,    \* what is cached, with the time it has left
    readers,    \* what each read holds
    faults

vars == <<source, unbumped, bumped, window, counts, entries, readers, faults>>

Windows == 0..MaxWindow
Versions == 0..MaxVersion
Keys == Windows \X Versions

NoEntry == [value |-> 0, left |-> 0]

\* `owed` is the version no read that begins now may fall behind, `blind` whether
\* the read of the generation failed.
NoRead == [pc |-> "idle", window |-> 0, generation |-> 0, value |-> 0, owed |-> 0, blind |-> FALSE]

Init ==
    /\ source = 0
    /\ unbumped = {}
    /\ bumped = 0
    /\ window = 0
    /\ counts = [w \in Windows |-> 0]
    /\ entries = [k \in Keys |-> NoEntry]
    /\ readers = [r \in Readers |-> NoRead]
    /\ faults = 0

Fault == faults < MaxFaults /\ faults' = faults + 1

----------------------------------------------------------------------------
(* The writers: a commit, and the bump that follows it.                    *)

Commit ==
    /\ source < MaxVersion
    /\ source' = source + 1
    /\ unbumped' = unbumped \cup {source + 1}
    /\ UNCHANGED <<bumped, window, counts, entries, readers, faults>>

Bump(v) ==
    /\ v \in unbumped
    /\ unbumped' = unbumped \ {v}
    /\ counts' = [counts EXCEPT ![window] = @ + 1]
    /\ bumped' = Max({bumped, v})
    /\ UNCHANGED <<source, window, entries, readers, faults>>

\* The increment is dropped, or the writer dies before it.
BumpIsLost(v) ==
    /\ v \in unbumped
    /\ Fault
    /\ unbumped' = unbumped \ {v}
    /\ UNCHANGED <<source, bumped, window, counts, entries, readers>>

----------------------------------------------------------------------------
(* read()                                                                  *)

\* A generation that is taken when the value is put.
MutKey(r) == <<readers[r].window, counts[readers[r].window]>>

Key(r) == <<readers[r].window, readers[r].generation>>

\* What is left of a read once it has answered.
Answered(read, value) ==
    [NoRead EXCEPT !.pc = "answered", !.value = value, !.owed = read.owed, !.blind = read.blind]

Begin(r) ==
    /\ readers[r].pc \in {"idle", "answered"}
    /\ readers' = [readers EXCEPT ![r] =
                      [NoRead EXCEPT !.pc = "begun", !.window = window, !.owed = bumped]]
    /\ UNCHANGED <<source, unbumped, bumped, window, counts, entries, faults>>

\* _generation(): a get that fails is the generation of a window without bumps.
ReadGeneration(r) ==
    /\ readers[r].pc = "begun"
    /\ \/ /\ readers' = [readers EXCEPT ![r].pc = "keyed",
                                        ![r].generation = counts[readers[r].window]]
          /\ UNCHANGED faults
       \/ /\ readers' = [readers EXCEPT ![r].pc = "keyed", ![r].blind = TRUE]
          /\ Fault
    /\ UNCHANGED <<source, unbumped, bumped, window, counts, entries>>

\* A hit answers the read; a miss, or a get that fails, loads.
GetEntry(r) ==
    /\ readers[r].pc = "keyed"
    /\ LET entry == entries[Key(r)]
       IN \/ /\ readers' = [readers EXCEPT ![r] =
                    IF entry.left > 0 THEN Answered(@, entry.value) ELSE [@ EXCEPT !.pc = "missed"]]
             /\ UNCHANGED faults
          \/ /\ entry.left > 0
             /\ readers' = [readers EXCEPT ![r].pc = "missed"]
             /\ Fault
    /\ UNCHANGED <<source, unbumped, bumped, window, counts, entries>>

Load(r) ==
    /\ readers[r].pc = "missed"
    /\ readers' = [readers EXCEPT ![r].pc = "loaded", ![r].value = source]
    /\ UNCHANGED <<source, unbumped, bumped, window, counts, entries, faults>>

Put(r) ==
    /\ readers[r].pc = "loaded"
    /\ \/ /\ entries' = [entries EXCEPT ![Key(r)] = [value |-> readers[r].value, left |-> Ttl]]
          /\ UNCHANGED faults
       \/ Fault /\ UNCHANGED entries
    /\ readers' = [readers EXCEPT ![r] = Answered(@, @.value)]
    /\ UNCHANGED <<source, unbumped, bumped, window, counts>>

----------------------------------------------------------------------------
(* Time.                                                                   *)

Tick ==
    /\ \E k \in Keys : entries[k].left > 0
    /\ entries' = [k \in Keys |->
                      IF entries[k].left > 1 THEN [entries[k] EXCEPT !.left = @ - 1] ELSE NoEntry]
    /\ UNCHANGED <<source, unbumped, bumped, window, counts, readers, faults>>

NewWindow ==
    /\ window < MaxWindow
    /\ window' = window + 1
    /\ UNCHANGED <<source, unbumped, bumped, counts, entries, readers, faults>>

Next ==
    \/ Commit
    \/ \E v \in Versions : Bump(v) \/ BumpIsLost(v)
    \/ \E r \in Readers : \/ Begin(r) \/ ReadGeneration(r) \/ GetEntry(r)
                          \/ Load(r) \/ Put(r)
    \/ Tick
    \/ NewWindow

Spec == Init /\ [][Next]_vars

----------------------------------------------------------------------------
(* Properties.                                                             *)

Read == [pc : {"idle", "begun", "keyed", "missed", "loaded", "answered"},
         window : Windows, generation : Versions, value : Versions, owed : Versions,
         blind : BOOLEAN]

TypeOK ==
    /\ {source, bumped} \subseteq Versions
    /\ unbumped \subseteq Versions
    /\ window \in Windows
    /\ counts \in [Windows -> Versions]
    /\ entries \in [Keys -> [value : Versions, left : 0..Ttl]]
    /\ readers \in [Readers -> Read]
    /\ faults \in 0..MaxFaults

\* A read that began after the bump of a write answers that write or a later one,
\* whatever other reads had loaded before it and put after, and in a new window,
\* unless the get of its own generation failed (read.py: a value loaded before a
\* write and put after its bump lands under a generation no read asks for).
FreshAfterBump ==
    \A r \in Readers :
        readers[r].pc = "answered" /\ ~readers[r].blind => readers[r].value >= readers[r].owed

----------------------------------------------------------------------------
(* What the steps keep, from which FreshAfterBump follows.                 *)

\* A value that a read of this window and generation finds, or will find once it
\* is put.
Holding(w, g, x) ==
    \/ entries[<<w, g>>].left > 0 /\ entries[<<w, g>>].value = x
    \/ \E r \in Readers : /\ readers[r].pc = "loaded" /\ Key(r) = <<w, g>>
                          /\ readers[r].value = x

\* A window is bumped once for each version whose writer is past its bump, and no
\* more.
BumpsAreCounted ==
    /\ unbumped \subseteq 1..source /\ bumped <= source
    /\ \A w \in Windows : counts[w] + Cardinality(unbumped) <= source

\* What a read goes by was read from the counters, and it owes no more than what
\* was bumped.
ReadsGoByCounts ==
    \A r \in Readers : /\ readers[r].window <= window
                       /\ readers[r].generation <= counts[readers[r].window]
                       /\ readers[r].owed <= bumped
                       /\ readers[r].pc = "loaded" => readers[r].value >= readers[r].owed

\* A value from before a bump is under a key that the bump has passed.
StaleIsPassed ==
    \A w \in Windows, g, x \in Versions : Holding(w, g, x) =>
        w <= window /\ g <= counts[w] /\ (x < bumped => w < window \/ g < counts[w])

\* A read that has begun will not take the generation of a value it may not
\* answer, and one that has its generation finds none under it.
BegunPassesStale ==
    \A r \in Readers : readers[r].pc = "begun" =>
        \A g, x \in Versions : Holding(readers[r].window, g, x) /\ x < readers[r].owed
                                 => g < counts[readers[r].window]

KeyedFindsFresh ==
    \A r \in Readers : readers[r].pc = "keyed" /\ ~readers[r].blind =>
        \A x \in Versions : Holding(readers[r].window, readers[r].generation, x)
                              => x >= readers[r].owed

IInv ==
    /\ TypeOK /\ BumpsAreCounted /\ ReadsGoByCounts
    /\ StaleIsPassed /\ BegunPassesStale /\ KeyedFindsFresh
    /\ FreshAfterBump
=============================================================================
