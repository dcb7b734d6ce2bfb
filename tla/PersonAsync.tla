----------------------------- MODULE PersonAsync -----------------------------
(***************************************************************************)
(* The person tracker behind its worker thread                             *)
(* (src/perception/person/person_async.cpp).  The perception thread puts   *)
(* frames into one ring, takes percepts out of another, and hands requests *)
(* over through a field and an atomic flag per kind of request; the worker *)
(* looks at the flags between two frames and clears a flag after it has    *)
(* served it.                                                              *)
(*                                                                         *)
(* A requested name is a std::string that both threads access without a    *)
(* lock: the worker that reads it while it is being assigned may get       *)
(* anything, which is the name Torn.                                       *)
(*                                                                         *)
(* The name in a percept is a char pointer into the tracker's vector of    *)
(* persons, which the worker goes on changing; whoever has the percept     *)
(* (the perception thread, the world model behind a message) reads what    *)
(* lies there by then.                                                     *)
(***************************************************************************)
EXTENDS PersonTracker, RingBuffer

CONSTANTS
  FrameMask, PerceptMask,   \* size - 1 of the two rings (3 and 15 in the code)
  Torn,                     \* a half-written name
  LearnIds,                 \* the ids that are asked to be learned
  MaxRequests,              \* bound on the number of requests of one kind
  MaxKinds                  \* bound on the number of kinds of request made

Kinds == <<"start_learn", "learn", "delete">>
Kind == ToSet(Kinds)
ASSUME AsyncAssumption ==
  /\ Torn \in Names \ Stored
  /\ {FrameMask, PerceptMask} \subseteq Nat \ {0}
  /\ LearnIds \subseteq 0 .. MaxId
  /\ {MaxRequests, MaxKinds} \subseteq Nat

Argument(k) == IF k = "start_learn" THEN 0 .. MaxId ELSE Names
Requestable(k) == (IF k = "start_learn" THEN LearnIds ELSE Names) \ {Torn}

VARIABLES
  frame_buffer, percept_buffer,
  shutdown_flag,
  flag,       \* flag[k]: start_learn_flag, learn_flag, delete_flag
  arg,        \* arg[k]: start_learn_id, learn_name, delete_name
  wpc,        \* where the worker is
  ppc,        \* where the perception thread is
  call,       \* the request the perception thread is making
  \* History:
  requests,   \* requests[k]: number of requests made
  handled,    \* the request that was served with the flag still up, and its argument
  overlapped, \* overlapped[k]: "now" if the last request of kind k was begun before
              \* the one before it was done with, "earlier" if one before it was
  batch       \* the percepts last taken

ringVars == <<frame_buffer, percept_buffer>>
requestVars == <<flag, arg, call, requests, overlapped>>
asyncVars == <<trackerVars, ringVars, shutdown_flag, requestVars, wpc, ppc, handled, batch>>

\* The worker is at a place that concerns one kind of request, or none.
At(place) == <<place, "none">>
NoCall == [kind |-> "learn", arg |-> Torn]

\* A percept: whom it is about and where its name points.  As history, since
\* its frame: there was another frame; its person, or one before it in the
\* vector, was erased, or the vector grew.
Percept == [id : Ids, place : Nat \ {0}, old : BOOLEAN, moved : BOOLEAN]
NoPercept == [id |-> 1, place |-> 1, old |-> TRUE, moved |-> TRUE]

AsyncInit ==
  /\ TrackerInit
  /\ frame_buffer = NewRing(FrameMask, 0)
  /\ percept_buffer = NewRing(PerceptMask, NoPercept)
  /\ shutdown_flag = FALSE
  /\ flag = [k \in Kind |-> FALSE]
  /\ arg = [k \in Kind |-> IF k = "start_learn" THEN 0 ELSE Torn]
  /\ wpc = At("loop")
  /\ ppc = "idle"
  /\ call = NoCall
  /\ requests = [k \in Kind |-> 0]
  /\ handled = NoCall
  /\ overlapped = [k \in Kind |-> "never"]
  /\ batch = {}

-----------------------------------------------------------------------------
(* The perception thread                                                   *)

\* Mutant: the flag is raised before the argument is written.
BeginRequestRaises(k, a) ==
  /\ ppc = "idle"
  /\ requests[k] < MaxRequests /\ Cardinality({j \in Kind : j = k \/ requests[j] > 0}) <= MaxKinds
  /\ requests' = [requests EXCEPT ![k] = @ + 1]
  /\ call' = [kind |-> k, arg |-> a]
  /\ arg' = [arg EXCEPT ![k] = IF k = "start_learn" THEN a ELSE Torn]
  /\ flag' = [flag EXCEPT ![k] = TRUE]
  /\ ppc' = "write"
  /\ overlapped' = [overlapped EXCEPT ![k] =
       IF flag[k] \/ wpc \in {"serve", "reset"} \X {k} THEN "now" ELSE IF @ = "now" THEN "earlier" ELSE @]
  /\ UNCHANGED <<trackerVars, ringVars, shutdown_flag, wpc, handled, batch>>

\* start_learn, learn, delete_person: the assignment of the argument begins,
BeginRequest(k, a) ==
  /\ ppc = "idle"
  /\ requests[k] < MaxRequests /\ Cardinality({j \in Kind : j = k \/ requests[j] > 0}) <= MaxKinds
  /\ requests' = [requests EXCEPT ![k] = @ + 1]
  /\ call' = [kind |-> k, arg |-> a]
  /\ arg' = [arg EXCEPT ![k] = IF k = "start_learn" THEN a ELSE Torn]
  /\ ppc' = "write"
  /\ overlapped' = [overlapped EXCEPT ![k] =
       IF flag[k] \/ wpc \in {"serve", "reset"} \X {k} THEN "now" ELSE IF @ = "now" THEN "earlier" ELSE @]
  /\ UNCHANGED <<trackerVars, ringVars, shutdown_flag, flag, wpc, handled, batch>>

\* ends,
EndWrite ==
  /\ ppc = "write"
  /\ arg' = [arg EXCEPT ![call.kind] = call.arg]
  /\ ppc' = "raise"
  /\ UNCHANGED <<trackerVars, ringVars, shutdown_flag, flag, call, requests, overlapped, wpc, handled, batch>>

\* and the flag is raised.
RaiseFlag ==
  /\ ppc = "raise"
  /\ flag' = [flag EXCEPT ![call.kind] = TRUE]
  /\ call' = NoCall
  /\ ppc' = "idle"
  /\ UNCHANGED <<trackerVars, ringVars, shutdown_flag, arg, requests, overlapped, wpc, handled, batch>>

\* Perception::tick with a new frame: put it, and then
PutFrame ==
  /\ ppc = "idle"
  /\ frame_buffer' = PutUnsafe(frame_buffer, 0)
  /\ ppc' = "poll"
  /\ UNCHANGED <<trackerVars, percept_buffer, shutdown_flag, requestVars, wpc, handled, batch>>

\* take what the worker has found.
TakePercepts ==
  /\ ppc = "poll"
  /\ batch' = ToSet(Waiting(percept_buffer))
  /\ percept_buffer' = Emptied(percept_buffer)
  /\ ppc' = "idle"
  /\ UNCHANGED <<trackerVars, frame_buffer, shutdown_flag, requestVars, wpc, handled>>

\* shutdown: raise the flag,
BeginShutdown ==
  /\ ppc = "idle"
  /\ shutdown_flag' = TRUE
  /\ ppc' = "join"
  /\ UNCHANGED <<trackerVars, ringVars, requestVars, wpc, handled, batch>>

\* join the worker, delete the tracker and the context.
JoinWorker ==
  /\ ppc = "join"
  /\ wpc = At("done")
  /\ ppc' = "down"
  /\ UNCHANGED <<trackerVars, ringVars, shutdown_flag, requestVars, wpc, handled, batch>>

-----------------------------------------------------------------------------
(* The worker                                                              *)


\* Where the worker goes when it is done with kind k.
After(k) == IF k = Last(Kinds) THEN At("take") ELSE <<"check", Kinds[CHOOSE i \in 2 .. 3 : Kinds[i - 1] = k]>>

\* Mutant: the flag is not looked at.
LoopTestNever ==
  /\ wpc = At("loop")
  /\ wpc' = <<"check", Head(Kinds)>>
  /\ UNCHANGED <<trackerVars, ringVars, shutdown_flag, requestVars, ppc, handled, batch>>

\* while (!shutdown_flag)
LoopTest ==
  /\ wpc = At("loop")
  /\ wpc' = IF shutdown_flag THEN At("done") ELSE <<"check", Head(Kinds)>>
  /\ UNCHANGED <<trackerVars, ringVars, shutdown_flag, requestVars, ppc, handled, batch>>

\* if (flag)
CheckFlag(k) ==
  /\ wpc = <<"check", k>>
  /\ wpc' = IF flag[k] THEN <<"serve", k>> ELSE After(k)
  /\ UNCHANGED <<trackerVars, ringVars, shutdown_flag, requestVars, ppc, handled, batch>>

TrackedIds == {persons[i].id : i \in DOMAIN persons}

\* What a step of the worker is to a percept made before it: an erase moves the
\* persons behind the one erased, and a push_back may move all of them elsewhere.
Later(p, frame) ==
  [p EXCEPT !.old = @ \/ frame,
            !.moved = \/ @ \/ next_id' # next_id
                      \/ \E i \in DOMAIN persons : persons[i].id = p.id
                            /\ \E g \in 1 .. i : persons[g].id \notin TrackedIds']
Age(frame) ==
  /\ percept_buffer' = [percept_buffer EXCEPT !.buffer = [i \in DOMAIN @ |-> Later(@[i], frame)]]
  /\ batch' = {Later(p, frame) : p \in batch}

\* The call of the tracker
Serve(k) ==
  /\ wpc = <<"serve", k>>
  /\ \/ k = "start_learn" /\ StartLearn(arg[k])
     \/ k = "learn" /\ Learn(arg[k])
     \/ k = "delete" /\ DeletePerson(arg[k])
  /\ Age(FALSE)
  /\ handled' = [kind |-> k, arg |-> arg[k]]
  /\ wpc' = <<"reset", k>>
  /\ UNCHANGED <<frame_buffer, shutdown_flag, requestVars, ppc>>

\* flag = false
ResetFlag(k) ==
  /\ wpc = <<"reset", k>>
  /\ flag' = [flag EXCEPT ![k] = FALSE]
  /\ handled' = NoCall
  /\ wpc' = After(k)
  /\ UNCHANGED <<trackerVars, ringVars, shutdown_flag, arg, call, requests, overlapped, ppc, batch>>

\* frame_buffer.take(), which waits for a frame
TakeFrame ==
  /\ wpc = At("take")
  /\ ~IsEmpty(frame_buffer)
  /\ frame_buffer' = Took(frame_buffer)
  /\ wpc' = At("process")
  /\ UNCHANGED <<trackerVars, percept_buffer, shutdown_flag, requestVars, ppc, handled, batch>>

ProcessFrame ==
  /\ wpc = At("process")
  /\ \E scan \in Scans, unused \in Unused : Process(scan, unused)
  /\ Age(TRUE)
  /\ wpc' = At("clear")
  /\ UNCHANGED <<frame_buffer, shutdown_flag, requestVars, ppc, handled>>

\* percept_buffer.clear()
ClearPercepts ==
  /\ wpc = At("clear")
  /\ percept_buffer' = Emptied(percept_buffer)
  /\ wpc' = At("put")
  /\ UNCHANGED <<trackerVars, frame_buffer, shutdown_flag, requestVars, ppc, handled, batch>>

\* percept_buffer.put_all(percepts), percepts.clear().  A person that its own
\* frame has erased is no longer where its percept points.
PutPercepts ==
  /\ wpc = At("put")
  /\ percept_buffer' = PutAll(percept_buffer,
       [i \in DOMAIN published |->
          [id |-> published[i].id, place |-> published[i].place,
           old |-> FALSE, moved |-> published[i].id \notin TrackedIds]])
  /\ published' = <<>>
  /\ wpc' = At("loop")
  /\ UNCHANGED <<persons, known_persons, next_id, learning_buffer, learning_id,
                 frame_buffer, shutdown_flag, requestVars, ppc, handled, batch>>

-----------------------------------------------------------------------------
WorkerStep ==
  \/ LoopTest
  \/ \E k \in Kind : CheckFlag(k) \/ Serve(k) \/ ResetFlag(k)
  \/ ProcessFrame \/ ClearPercepts \/ PutPercepts

PerceptionStep ==
  \/ \E k \in Kind : \E a \in Requestable(k) : BeginRequest(k, a)
  \/ EndWrite \/ RaiseFlag \/ PutFrame \/ TakePercepts \/ BeginShutdown \/ JoinWorker

AsyncNext == WorkerStep \/ TakeFrame \/ PerceptionStep

AsyncSpec == AsyncInit /\ [][AsyncNext]_asyncVars

\* The camera delivers frames until the shutdown; a request that is begun is
\* finished; the worker runs, and gets the mutex of the frame ring although
\* the perception thread puts into it again and again (a frame period is far
\* longer than the wake-up of a thread).
AsyncFairSpec ==
  /\ AsyncSpec
  /\ WF_asyncVars(EndWrite \/ RaiseFlag \/ PutFrame \/ TakePercepts \/ JoinWorker)
  /\ WF_asyncVars(WorkerStep)
  /\ SF_asyncVars(TakeFrame)

-----------------------------------------------------------------------------
(* Properties                                                              *)

\* Each call of take_all returns percepts of a single frame, although the
\* worker clears and refills the ring in two separate critical sections.
BatchOfOneFrame == \A p, q \in batch : p.old = q.old

\* Only requested names are learned, unless a request overlapped another one
\* of its kind.
NoTornName ==
  overlapped["learn"] = "never" => \A i \in DOMAIN known_persons : known_persons[i].name # Torn

PointsAtOwn(p) == p.place \in DOMAIN persons /\ persons[p.place].id = p.id

\* The name that a percept points at is that of the person it is about, while
\* the worker is not within a frame (where it may be assigning it), unless
\* that person or one before it was erased since, or the vector grew: then the
\* pointer shows somebody else's name, or leads into freed memory.
NamesOfTheirOwn ==
  wpc # At("process") =>
    \A p \in batch : ~p.moved => PointsAtOwn(p)

\* What passes from one thread to the other, with the exceptions stated: the
\* percepts taken are of one frame, no torn name is learned, and the names
\* behind the percepts are those of their persons.
HandoversWhole == BatchOfOneFrame /\ NoTornName /\ NamesOfTheirOwn


\* The module's shutdown, which joins the worker, returns if the worker is
\* past its take or still has a frame to take.  (Otherwise the worker waits in
\* take for a frame that only the joining thread would put.)
ShutdownReturns ==
  (ppc = "join" /\ (wpc \in {At("loop"), At("process"), At("clear"), At("put")} \/ ~IsEmpty(frame_buffer)))
    ~> (ppc = "down")

-----------------------------------------------------------------------------
(* The inductive invariant behind HandoversWhole.                          *)

\* What is written is well typed at every step of both threads.
AsyncTypeOK ==
  /\ percept_buffer \in Ring(PerceptMask, Percept)
  /\ batch \subseteq Percept
  /\ arg \in [Kind -> 0 .. MaxId \cup Names] /\ \A k \in Kind : arg[k] \in Argument(k)
  /\ flag \in [Kind -> BOOLEAN]
  /\ call.kind \in Kind /\ call.arg \in Argument(call.kind)
  /\ overlapped \in [Kind -> {"never", "earlier", "now"}]

\* The percept ring never holds percepts of two frames, and holds none when
\* the worker is about to fill it.
PerceptsInv ==
  /\ \A p, q \in ToSet(Waiting(percept_buffer)) : p.old = q.old
  /\ BatchOfOneFrame
  /\ wpc = At("put") => IsEmpty(percept_buffer)

\* Pointers are right where they are made, in the ring and where they are taken.
PointersInv ==
  /\ \A p \in ToSet(Waiting(percept_buffer)) : ~p.moved => PointsAtOwn(p)
  /\ \A p \in batch : ~p.moved => PointsAtOwn(p)
  /\ wpc \in {At("clear"), At("put")} =>
       \A i \in DOMAIN published : published[i].id \in TrackedIds => PointsAtOwn(published[i])

\* A name that the worker is about to learn is whole, and nobody writes it.
LearnInv ==
  /\ ppc \in {"write", "raise"} => call.arg # Torn
  /\ overlapped["learn"] = "never" =>
       /\ flag["learn"] \/ wpc \in {"serve", "reset"} \X {"learn"} =>
            arg["learn"] # Torn /\ ~(ppc = "write" /\ call.kind = "learn")
       /\ ppc = "raise" /\ call.kind = "learn" => arg["learn"] # Torn

AsyncInv == TrackerInv /\ AsyncTypeOK /\ PerceptsInv /\ PointersInv /\ LearnInv /\ NoTornName
=============================================================================
