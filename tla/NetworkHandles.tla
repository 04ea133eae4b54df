---------------------------- MODULE NetworkHandles ----------------------------
(***************************************************************************)
(* The network module's use of CURL: MultiHandle, which performs transfers *)
(* side by side and reports each to a callback that may add more or put an *)
(* end to all, and the perform of a single Handle, with an easy handle     *)
(* that its thread or pool keeps.  All of it runs on one thread.           *)
(*                                                                         *)
(* What CURL does is a choice: which transfers end, and how.  A transfer's *)
(* functions may add handles too, but not start another transfer on the    *)
(* kept easy handle, which would be the one in use.  What is said of a     *)
(* transfer to CURL, and what finalize writes of its end into the handle,  *)
(* is left out.                                                            *)
(***************************************************************************)
EXTENDS Integers, Sequences, FiniteSets, SequencesExt, Functions, FiniteSetsExt

CONSTANTS
    Handles,    \* Handle objects
    Easy,       \* addresses of CURL's easy handles, as numbers
    Keepers,    \* the pools, and the thread, that keep an easy handle
    Thread,     \* the one of Keepers that lasts
    MaxAdds,    \* bound: calls of addHandle
    MaxSingle,  \* bound: calls of a single handle's perform
    NULL

VARIABLES
    pending,    \* MultiHandle::pending: handles with their userdata
    curl,       \* the easy handles that exist, and s_activeHandles
    opened,     \* how many transfers have files open and lists allocated
    handles,    \* the contexts of perform, by easy handle
    cached,     \* the easy handle of each keeper
    at,         \* where perform is, its variable running, the easy handle it reports
    seen        \* history: what was added, finalized and reported, and what went wrong

vars == <<pending, curl, opened, handles, cached, at, seen>>

\* How a transfer ends: CURL's code, CURLE_OK or another.
Codes == {"ok", "failed"}

Init ==
    /\ pending = <<>> /\ curl = [live |-> {}, active |-> 0] /\ opened = 0 /\ handles = [e \in {} |-> NULL]
    /\ cached = [k \in Keepers |-> NULL]
    /\ at = [pc |-> "idle", running |-> 0, easy |-> NULL]
    /\ seen = [added |-> <<>>, single |-> 0, finalized |-> {}, twice |-> FALSE, reported |-> <<>>,
               refusals |-> 0, leaks |-> 0, broken |-> FALSE]

--------------------------------------------------------------------------------
(* Easy handles and contexts *)

\* CURL's memory: the n free addresses that come first.
Free(n) == CHOOSE es \in SUBSET (Easy \ curl.live) :
    Cardinality(es) = n /\ \A e \in es, f \in (Easy \ curl.live) \ es : e < f

Alloc(c, es) == [c EXCEPT !.live = @ \cup es, !.active = @ + Cardinality(es)]
Release(c, es) == [c EXCEPT !.live = @ \ es, !.active = @ - Cardinality(es)]

Without(es) == Restrict(handles, DOMAIN handles \ es)

\* finalize was called with these contexts.
Finalized(s, es) ==
    LET tickets == {handles[e].userdata : e \in es}
    IN  [s EXCEPT !.finalized = @ \cup tickets, !.twice = @ \/ tickets \cap s.finalized # {}]

--------------------------------------------------------------------------------
(* MultiHandle *)

\* By the program, by a function of a transfer, or by the callback, which may add the handle
\* it is given.
AddHandle(h) ==
    /\ at.pc \in {"idle", "report"} \/ (at.pc = "perform" /\ at.running > 0)
    /\ Len(seen.added) < MaxAdds
    /\ \A i \in DOMAIN pending : pending[i].handle # h
    /\ \A e \in DOMAIN handles : handles[e].handle = h => e = at.easy
    /\ pending' = Append(pending, [handle |-> h, userdata |-> Len(seen.added) + 1])
    /\ seen' = [seen EXCEPT !.added = Append(@, h)]
    /\ UNCHANGED <<curl, opened, handles, cached, at>>

\* initPending: every one gets an easy handle and a context.  That prepare may fail is not
\* looked at: CURL is left to find out what is missing.
InitPending ==
    LET n == Len(pending)
        es == SetToSortSeq(Free(n), <)
    IN  /\ Cardinality(Easy \ curl.live) >= n
        /\ curl' = Alloc(curl, Range(es))
        /\ opened' = opened + n
        /\ handles' = [e \in DOMAIN handles \cup Range(es) |->
                         IF e \in DOMAIN handles THEN handles[e]
                         ELSE LET p == pending[AntiFunction(es)[e]]
                              IN  [handle |-> p.handle, userdata |-> p.userdata, code |-> NULL]]
        /\ pending' = <<>>

Start ==
    /\ at.pc = "idle"
    /\ InitPending
    /\ at' = [at EXCEPT !.pc = "perform", !.running = Len(pending)]
    /\ UNCHANGED <<cached, seen>>

\* curl_multi_perform, after which some transfers have ended, and curl_multi_poll.
MultiPerform ==
    LET runs == {e \in DOMAIN handles : handles[e].code = NULL} IN
    /\ at.pc = "perform"
    /\ \E ended \in SUBSET runs : \E code \in [ended -> Codes] :
        /\ handles' = [e \in DOMAIN handles |->
                         IF e \in ended THEN [handles[e] EXCEPT !.code = code[e]] ELSE handles[e]]
        /\ at' = [at EXCEPT !.pc = "info", !.running = Cardinality(runs \ ended)]
    /\ UNCHANGED <<pending, curl, opened, cached, seen>>

\* An error of either: perform returns at once, and leaves everything as it is.
MultiFails ==
    /\ at.pc = "perform"
    /\ handles' = [e \in {} |-> NULL]
    /\ at' = [pc |-> "idle", running |-> 0, easy |-> NULL]
    /\ seen' = [seen EXCEPT !.broken = TRUE]
    /\ UNCHANGED <<pending, curl, opened, cached>>

\* curl_multi_info_read gives one of the transfers that have ended.
ReadInfo(e) ==
    /\ at.pc = "info" /\ handles[e].code # NULL
    /\ opened' = opened - 1
    /\ at' = [at EXCEPT !.pc = "report", !.easy = e]
    /\ seen' = [Finalized(seen, {e}) EXCEPT !.reported = Append(@, <<handles[e].handle, handles[e].userdata>>)]
    /\ UNCHANGED <<pending, curl, handles, cached>>

\* The callback wants to go on, or there is none.
Continue ==
    /\ at.pc = "report"
    /\ handles' = Without({at.easy})
    /\ curl' = Release(curl, {at.easy})
    /\ at' = [at EXCEPT !.pc = "info", !.easy = NULL]
    /\ UNCHANGED <<pending, opened, cached, seen>>

\* The callback refuses: cancel finalizes and releases all the others.  What the callback has
\* added waits for the next perform; the easy handle of the transfer that was reported is
\* not released.
Refuse ==
    LET others == DOMAIN handles \ {at.easy} IN
    /\ at.pc = "report"
    /\ opened' = opened - Cardinality(others)
    /\ curl' = Release(curl, others)
    /\ handles' = [e \in {} |-> NULL]
    /\ at' = [pc |-> "idle", running |-> 0, easy |-> NULL]
    /\ seen' = [Finalized(seen, others) EXCEPT !.refusals = @ + 1]
    /\ UNCHANGED <<pending, cached>>

\* Mutant: the transfers that the callback has added are not counted.
NotCounted(running, added) == running

Running(running, added) == running + added

\* No message is left: the loop goes on as long as something runs or was added.
EndInfo ==
    /\ at.pc = "info" /\ \A e \in DOMAIN handles : handles[e].code = NULL
    /\ InitPending
    /\ LET n == Running(at.running, Len(pending))
       IN  at' = [at EXCEPT !.pc = IF n > 0 THEN "perform" ELSE "idle", !.running = n]
    /\ UNCHANGED <<cached, seen>>

--------------------------------------------------------------------------------
(* The perform of one handle, by itself *)

\* getHandle with reuse: the keeper's easy handle, made when it is first asked for.
Reused(k) == IF cached[k] = NULL THEN Free(1) ELSE {cached[k]}

\* If the preparation fails, its files and lists stay, and so does the code CURLE_OK.
Ends == {<<prepared, code>> \in BOOLEAN \X Codes : ~prepared => code = "ok"}

Prepared(prepared) ==
    /\ opened' = IF prepared THEN opened ELSE opened + 1
    /\ seen' = [seen EXCEPT !.single = @ + 1, !.leaks = IF prepared THEN @ ELSE @ + 1]

\* releaseHandle: reset keeps the easy handle, invalidate puts another in its place, which may
\* have the same address.
PerformReuse(k) ==
    /\ at.pc = "idle" /\ seen.single < MaxSingle /\ Easy \ curl.live # {}
    /\ \E e \in Reused(k), end \in Ends :
        /\ Prepared(end[1])
        /\ \E new \in IF end[2] = "ok" THEN {e} ELSE {e} \cup Free(1) :
             /\ cached' = [cached EXCEPT ![k] = new]
             /\ curl' = LET c == Alloc(curl, {e} \ curl.live)
                        IN  [c EXCEPT !.live = (@ \ {e}) \cup {new}]
    /\ UNCHANGED <<pending, handles, at>>

\* Without reuse an easy handle is made and released.
PerformOnce ==
    /\ at.pc = "idle" /\ seen.single < MaxSingle /\ Easy \ curl.live # {}
    /\ \E end \in Ends : Prepared(end[1])
    /\ UNCHANGED <<pending, curl, handles, cached, at>>

\* The cleanup of a pool's userdata.
DestroyPool(k) ==
    /\ at.pc = "idle" /\ k # Thread /\ cached[k] # NULL
    /\ curl' = Release(curl, {cached[k]})
    /\ cached' = [cached EXCEPT ![k] = NULL]
    /\ UNCHANGED <<pending, opened, handles, at, seen>>

Next ==
    \/ \E h \in Handles : AddHandle(h)
    \/ Start \/ MultiPerform \/ MultiFails \/ Continue \/ Refuse \/ EndInfo
    \/ \E e \in DOMAIN handles : ReadInfo(e)
    \/ \E k \in Keepers : PerformReuse(k) \/ DestroyPool(k)
    \/ PerformOnce

Spec == Init /\ [][Next]_vars

--------------------------------------------------------------------------------
(* Properties *)

TypeOK ==
    /\ \A i \in DOMAIN pending : pending[i].handle \in Handles /\ pending[i].userdata \in 1 .. MaxAdds
    /\ curl.live \subseteq Easy /\ curl.active \in Nat /\ opened \in Nat
    /\ DOMAIN handles \subseteq Easy
    /\ \A e \in DOMAIN handles : handles[e].code \in Codes \cup {NULL}
    /\ cached \in [Keepers -> Easy \cup {NULL}]
    /\ at \in [pc : {"idle", "perform", "info", "report"}, running : 0 .. MaxAdds, easy : Easy \cup {NULL}]

\* getActiveHandles() tells the number of CURL's easy handles.  Each belongs to one transfer or
\* to one keeper, but for the one that every refusal of a callback leaves behind.
EasyOwned ==
    LET kept == {k \in Keepers : cached[k] # NULL}
    IN  /\ curl.active = Cardinality(curl.live)
        /\ \A k \in kept : cached[k] \in curl.live \ DOMAIN handles
        /\ \A j, k \in kept : cached[j] = cached[k] => j = k
        /\ ~seen.broken =>
             Cardinality(curl.live) = Cardinality(DOMAIN handles) + Cardinality(kept) + seen.refusals

\* perform ends when nothing runs and nothing was added, and not before: a handle that was
\* added, from wherever, is finalized once and reported to the callback once, with its own
\* userdata, unless the callback refused or CURL failed; then it is finalized, or waits.
ReportedOnce ==
    LET waiting == {pending[i].userdata : i \in DOMAIN pending}
        reported == {r[2] : r \in Range(seen.reported)}
    IN  /\ ~seen.twice /\ waiting \cap seen.finalized = {} /\ reported \subseteq seen.finalized
        /\ IsInjective(seen.reported)
        /\ \A r \in Range(seen.reported) : seen.added[r[2]] = r[1]
        /\ at.pc = "idle" /\ ~seen.broken =>
             /\ waiting \cup seen.finalized = DOMAIN seen.added
             /\ seen.refusals = 0 => reported = seen.finalized
        /\ at.pc = "perform" => at.running = Cardinality({e \in DOMAIN handles : handles[e].code = NULL})

\* Files are closed and lists freed with the transfer they are for, however it ends, but for
\* those of a single transfer whose preparation failed.
FilesClosed ==
    ~seen.broken => opened = Cardinality(DOMAIN handles \ {at.easy}) + seen.leaks
================================================================================
