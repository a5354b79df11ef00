------------------------------ MODULE FuvLoop ------------------------------
(***************************************************************************)
(* Who owns the handles and the requests of an event loop of the fuv       *)
(* module.  A handle or a request is an object of the collector that libuv *)
(* keeps a pointer to.  The loop holds it in its list refs while libuv may *)
(* still use it; a finalizer that finds its object in refs does not free   *)
(* it but leaves it to the loop (gclist), and the finalizer of the loop    *)
(* closes everything, runs libuv until it is done and frees the rest.      *)
(*                                                                         *)
(* One loop, used by one thread as libuv demands; other threads only hold  *)
(* and drop references.  The collector may run whenever program code runs  *)
(* or libuv waits.  It sweeps in any order: the order of its list depends  *)
(* on which thread made which object.                                      *)
(***************************************************************************)
EXTENDS Naturals, Sequences

CONSTANTS
    Loop,       \* the loop object
    Handles,    \* the handles, all made on that loop
    Reqs,       \* the requests
    NoObj

Clients == Handles \cup Reqs
Objs == {Loop} \cup Clients

ASSUME ObjsAssumption ==
    /\ Loop \notin Clients
    /\ Handles \cap Reqs = {}
    /\ NoObj \notin Objs

VARIABLES
    mem,        \* "none", "heap", "delayed" (in gclist) or "freed"
    link,       \* data.loop # NULL, for handles and requests
    refs,       \* the list data.refs of the loop
    gclist,     \* the list data.gclist of the loop
    uv,         \* what libuv knows of a handle or a request
    closer,     \* how a handle is being closed, see below
    onclose,    \* data.callbacks[1] # NULL
    closed,     \* data.is_closed
    exe,        \* data.exe # NULL
    err,        \* data.error_occured
    held,       \* what the program can reach by itself
    pc,         \* where the thread of the loop is
    cur,        \* the object whose callback runs, NoObj otherwise
    gc,         \* "off", "sweep", or in the loop's finalizer: "drain", "gclist"
    white       \* what the collection still has to sweep

vars == <<mem, link, refs, gclist, uv, closer, onclose, closed, exe, err,
          held, pc, cur, gc, white>>
ownerVars == <<mem, link, refs, gclist>>
loopVars == <<closed, exe, err>>
closeVars == <<closer, onclose>>
gcVars == <<gc, white>>

\* What libuv knows: a handle is "open" until uv_close, "closing" until its
\* close callback, then "closed"; a request is in "flight" until its callback,
\* also when it was "canceled", then "done".  "none": its init failed.
Registered == {"open", "closing", "flight", "canceled"}

\* The close callback libuv has: close_callback_wrapper with close_callback
\* set to NULL ("silent") or to fuv_close_cb ("wrapped"), or, after
\* tcp-close-reset, fuv_close_cb itself ("reset").
Closers == {"none", "silent", "wrapped", "reset"}

\* After the last four nothing is promised: the process is over, libuv was
\* used in a way it leaves undefined, its assertion failed, or the finalizer
\* of the loop has called program code.
PCs == {"code", "run", "call", "over", "undefined", "aborted", "reentered"}

Init ==
    /\ mem = [o \in Objs |-> IF o = Loop THEN "heap" ELSE "none"]
    /\ link = [o \in Clients |-> FALSE]
    /\ refs = {}
    /\ gclist = <<>>
    /\ uv = [o \in Clients |-> "none"]
    /\ closer = [h \in Handles |-> "none"]
    /\ onclose = [h \in Handles |-> FALSE]
    /\ closed = FALSE
    /\ exe = FALSE
    /\ err = FALSE
    /\ held = {Loop}
    /\ pc = "code"
    /\ cur = NoObj
    /\ gc = "off"
    /\ white = {}

\* Program code runs on the thread of the loop: outside of uv_run, or inside
\* it in a callback.
InProgram == gc = "off" /\ pc \in {"code", "call"}
InRun == gc = "off" /\ pc = "run"

-----------------------------------------------------------------------------
(* The list refs. *)

AddRef(o) ==
    /\ link' = [link EXCEPT ![o] = TRUE]
    /\ refs' = refs \cup {o}

\* An object that is not in the list has no neighbours, and unlinking it sets
\* the head of the list to NULL.
Unlinked(o) == IF o \in refs THEN refs \ {o} ELSE {}

\* fuvLoopRemoveHandleRef, fuvLoopRemoveReqRef
RemoveRef(o) ==
    /\ link' = [link EXCEPT ![o] = FALSE]
    /\ refs' = Unlinked(o)

\* fuvReqCleanUp
ReqCleanUp(r) ==
    IF link[r] THEN RemoveRef(r) ELSE UNCHANGED <<link, refs>>

-----------------------------------------------------------------------------
(* Operations of the program. *)

\* make-timer, make-tcp, ...: the object is made and linked, then libuv
\* initialises the handle.
MakeHandle(h) ==
    /\ InProgram /\ Loop \in held /\ mem[h] = "none" /\ ~closed
    /\ mem' = [mem EXCEPT ![h] = "heap"]
    /\ AddRef(h)
    /\ uv' = [uv EXCEPT ![h] = "open"]
    /\ held' = held \cup {h}
    /\ UNCHANGED <<gclist, closeVars, loopVars, pc, cur, gcVars>>

\* The initialisation fails: cleanup_handle takes the handle out of the list
\* again, and the error that is raised leaves it unreachable.
MakeHandleFails(h) ==
    /\ InProgram /\ Loop \in held /\ mem[h] = "none" /\ ~closed
    /\ mem' = [mem EXCEPT ![h] = "heap"]
    /\ UNCHANGED <<link, refs, gclist, uv, closeVars, loopVars, held, pc, cur,
                   gcVars>>

\* A request: getaddrinfo, fs operations, writes, ...
StartReq(r) ==
    /\ InProgram /\ Loop \in held /\ mem[r] = "none" /\ ~closed
    /\ mem' = [mem EXCEPT ![r] = "heap"]
    /\ AddRef(r)
    /\ uv' = [uv EXCEPT ![r] = "flight"]
    /\ held' = held \cup {r}
    /\ UNCHANGED <<gclist, closeVars, loopVars, pc, cur, gcVars>>

\* libuv refuses it.  CHECK_UV_RESULT_AND_CLEANUP_REQ unlinks the request;
\* tcp-connect has CHECK_UV_RESULT alone, which leaves it in the list.
StartReqFails(r) ==
    /\ InProgram /\ Loop \in held /\ mem[r] = "none" /\ ~closed
    /\ mem' = [mem EXCEPT ![r] = "heap"]
    /\ AddRef(r) \/ UNCHANGED <<link, refs>>
    /\ UNCHANGED <<gclist, uv, closeVars, loopVars, held, pc, cur, gcVars>>

\* Nothing keeps the program from making a handle or a request on a closed
\* loop, or from running it; libuv leaves that undefined.
UseClosedLoop ==
    /\ InProgram /\ Loop \in held /\ closed
    /\ pc' = "undefined"
    /\ UNCHANGED <<ownerVars, uv, closeVars, loopVars, held, cur, gcVars>>

\* uv_close: libuv asserts that the handle is not being closed already.
uv_close(h, how) ==
    IF uv[h] = "open"
    THEN /\ uv' = [uv EXCEPT ![h] = "closing"]
         /\ closer' = [closer EXCEPT ![h] = how]
         /\ UNCHANGED pc
    ELSE /\ pc' = "aborted"
         /\ UNCHANGED <<uv, closer>>

\* handle-close, with or without a procedure.
fuv_handle_close(h, proc) ==
    /\ InProgram /\ h \in held /\ link[h] /\ uv[h] = "open"
    /\ onclose' = [onclose EXCEPT ![h] = @ \/ proc]
    /\ uv_close(h, "wrapped")
    /\ UNCHANGED <<ownerVars, loopVars, held, cur, gcVars>>

\* tcp-close-reset does not ask whether the handle is closing.
fuv_tcp_close_reset(h, proc) ==
    /\ InProgram /\ h \in held /\ link[h]
    /\ onclose' = [onclose EXCEPT ![h] = @ \/ proc]
    /\ uv_close(h, "reset")
    /\ UNCHANGED <<ownerVars, loopVars, held, cur, gcVars>>

\* req-cancel: libuv takes the request back if no thread works on it yet; its
\* callback is still to come.
fuv_req_cancel(r) ==
    /\ InProgram /\ r \in held /\ link[r] /\ uv[r] = "flight"
    /\ uv' = [uv EXCEPT ![r] = "canceled"]
    /\ ReqCleanUp(r)
    /\ UNCHANGED <<mem, gclist, closeVars, loopVars, held, pc, cur, gcVars>>

\* loop-close: uv_loop_close refuses while anything is registered.  Inside
\* uv_run it destroys the loop that is running.
fuv_loop_close ==
    /\ InProgram /\ Loop \in held /\ ~closed
    /\ \A o \in Clients : uv[o] \notin Registered
    /\ IF pc = "code"
       THEN closed' = TRUE /\ err' = FALSE /\ UNCHANGED pc
       ELSE pc' = "undefined" /\ UNCHANGED <<closed, err>>
    /\ UNCHANGED <<ownerVars, uv, closeVars, exe, held, cur, gcVars>>

\* What the program can get at: loop-walk and handle-loop.
Fetch(o) ==
    /\ InProgram /\ o \notin held
    /\ \/ Loop \in held /\ o \in Handles /\ uv[o] \in Registered
       \/ o = Loop /\ \E h \in Handles \cap held : link[h]
    /\ held' = held \cup {o}
    /\ UNCHANGED <<ownerVars, uv, closeVars, loopVars, pc, cur, gcVars>>

Drop(o) ==
    /\ gc = "off" /\ pc \in {"code", "run", "call"} /\ o \in held
    /\ held' = held \ {o}
    /\ UNCHANGED <<ownerVars, uv, closeVars, loopVars, pc, cur, gcVars>>

-----------------------------------------------------------------------------
(* loop-run, and what libuv calls from uv_run. *)

fuv_loop_run ==
    /\ gc = "off" /\ pc = "code" /\ Loop \in held /\ ~closed
    /\ exe' = TRUE
    /\ err' = FALSE
    /\ pc' = "run"
    /\ UNCHANGED <<ownerVars, uv, closeVars, closed, held, cur, gcVars>>

\* A mode that does not exist is refused, but after data.exe was set.
LoopRunRefused ==
    /\ gc = "off" /\ pc = "code" /\ Loop \in held
    /\ exe' = TRUE
    /\ UNCHANGED <<ownerVars, uv, closeVars, closed, err, held, pc, cur, gcVars>>

\* uv_run returns: nothing left, the mode asks for it, or uv_stop.  An error of
\* a callback is raised again, and data.exe and error_occured stay.
LoopRunReturns ==
    /\ InRun
    /\ pc' = "code"
    /\ exe' = err
    /\ UNCHANGED <<ownerVars, uv, closeVars, closed, err, held, cur, gcVars>>

\* fuv_call_handle_callback_in_loop with callbacks[0].
HandleEvent(h) ==
    /\ InRun /\ uv[h] = "open" /\ ~err
    /\ pc' = "call"
    /\ cur' = h
    /\ UNCHANGED <<ownerVars, uv, closeVars, loopVars, held, gcVars>>

\* Mutant: the wrapper unlinks the handle without looking at data.loop.
Bug_UnlinkAlways(h) ==
    /\ uv' = [uv EXCEPT ![h] = "closed"]
    /\ RemoveRef(h)

\* The part of libuv's close callback before program code: the wrapper takes
\* the handle out of the list, fuv_close_cb alone does not.
close_callback_wrapper(h) ==
    /\ uv' = [uv EXCEPT ![h] = "closed"]
    /\ IF closer[h] \in {"silent", "wrapped"} /\ link[h]
       THEN RemoveRef(h)
       ELSE UNCHANGED <<link, refs>>

CallsProgram(h) == closer[h] \in {"wrapped", "reset"} /\ onclose[h] /\ ~err

FinishClose(h) ==
    /\ InRun /\ uv[h] = "closing"
    /\ close_callback_wrapper(h)
    /\ IF CallsProgram(h)
       THEN pc' = "call" /\ cur' = h
       ELSE UNCHANGED <<pc, cur>>
    /\ UNCHANGED <<mem, gclist, closeVars, loopVars, held, gcVars>>

\* fuv_call_req_callback_in_loop_with_value_creator: the request is unlinked
\* before the program sees its result, unless it was canceled or an error of
\* another callback is on its way.
FinishReq(r, proc) ==
    /\ InRun /\ uv[r] \in {"flight", "canceled"}
    /\ uv' = [uv EXCEPT ![r] = "done"]
    /\ IF ~link[r] \/ err
       THEN UNCHANGED <<link, refs, pc, cur>>
       ELSE /\ ReqCleanUp(r)
            /\ IF proc THEN pc' = "call" /\ cur' = r ELSE UNCHANGED <<pc, cur>>
    /\ UNCHANGED <<mem, gclist, closeVars, loopVars, held, gcVars>>

\* Is cur a handle whose close callback is running?
InCloseCallback == cur \in Handles /\ uv[cur] = "closed"

\* Back in the wrapper, which clears close_callback: a write to the handle.
CallbackReturns ==
    /\ gc = "off" /\ pc = "call"
    /\ pc' = IF InCloseCallback /\ closer[cur] = "wrapped" /\ mem[cur] = "freed"
             THEN "undefined" ELSE "run"
    /\ cur' = NoObj
    /\ UNCHANGED <<ownerVars, uv, closeVars, loopVars, held, gcVars>>

\* The callback raises an error: the loop is stopped, and the handle whose
\* callback it was is closed, without asking whether it is closing already.
CallbackRaises ==
    /\ gc = "off" /\ pc = "call"
    /\ err' = TRUE
    /\ cur' = NoObj
    /\ CASE cur \in Reqs -> pc' = "run" /\ UNCHANGED <<uv, closer>>
         [] cur \in Handles /\ uv[cur] = "open" ->
                /\ uv' = [uv EXCEPT ![cur] = "closing"]
                /\ closer' = [closer EXCEPT ![cur] = "silent"]
                /\ pc' = "run"
         [] OTHER -> pc' = "aborted" /\ UNCHANGED <<uv, closer>>
    /\ UNCHANGED <<ownerVars, onclose, closed, exe, held, gcVars>>

-----------------------------------------------------------------------------
(* The collector.  loop-run has the loop on its stack. *)

Roots == held \cup (IF pc \in {"run", "call"} THEN {Loop} ELSE {})

\* Mutant: the loop does not mark its list.
Bug_LoopMarksNothing ==
    IF Loop \in Roots \/ \E o \in Roots \cap Clients : link[o]
    THEN Roots \cup {Loop}
    ELSE Roots

\* A handle or request marks its loop, the loop what is in refs.
Reachable ==
    IF Loop \in Roots \/ \E o \in Roots \cap Clients : link[o]
    THEN Roots \cup {Loop} \cup refs
    ELSE Roots

Collect ==
    /\ gc = "off" /\ pc \in {"code", "run", "call"}
    /\ white' = {o \in Objs : mem[o] = "heap"} \ Reachable
    /\ white' # {}
    /\ gc' = "sweep"
    /\ UNCHANGED <<ownerVars, uv, closeVars, loopVars, held, pc, cur>>

\* The program is over: everything is swept.
Shutdown ==
    /\ gc = "off" /\ pc = "code"
    /\ pc' = "over"
    /\ held' = {}
    /\ white' = {o \in Objs : mem[o] = "heap"}
    /\ gc' = "sweep"
    /\ UNCHANGED <<ownerVars, uv, closeVars, loopVars, cur>>

\* What follows in the sweep is not modelled.
Halt(p) ==
    /\ pc' = p
    /\ gc' = "off"
    /\ white' = {}

\* Mutant: a finalizer frees its object although libuv may know it.
Bug_FreeNow(o) ==
    /\ gc = "sweep" /\ o \in white \cap Clients
    /\ white' = white \ {o}
    /\ mem' = [mem EXCEPT ![o] = "freed"]
    /\ ReqCleanUp(o)
    /\ UNCHANGED <<gclist, uv, closeVars, loopVars, held, pc, cur, gc>>

\* The finalizer of a handle or request: fuvLoopAddGcObj follows the pointer
\* to the loop if there is one.
FinalizeClient(o) ==
    /\ gc = "sweep" /\ o \in white \cap Clients
    /\ CASE ~link[o] ->
                /\ mem' = [mem EXCEPT ![o] = "freed"]
                /\ white' = white \ {o}
                /\ UNCHANGED <<link, refs, gclist, pc, gc>>
         [] link[o] /\ mem[Loop] # "freed" ->
                /\ mem' = [mem EXCEPT ![o] = "delayed"]
                /\ RemoveRef(o)
                /\ gclist' = <<o>> \o gclist
                /\ white' = white \ {o}
                /\ UNCHANGED <<pc, gc>>
         [] OTHER -> Halt("undefined") /\ UNCHANGED ownerVars
    /\ UNCHANGED <<uv, closeVars, loopVars, held, cur>>

\* Mutant: uv_walk leaves the open handles alone.
Bug_WalkClosesNothing ==
    /\ gc = "sweep" /\ Loop \in white
    /\ white' = white \ {Loop}
    /\ gc' = IF closed THEN "gclist" ELSE "drain"
    /\ UNCHANGED <<ownerVars, uv, closeVars, loopVars, held, pc, cur>>

\* fuv_loop_finalize: uv_walk closes what is open and silences what is closing.
FinalizeLoop ==
    /\ gc = "sweep" /\ Loop \in white
    /\ white' = white \ {Loop}
    /\ IF closed
       THEN gc' = "gclist" /\ UNCHANGED <<uv, closeVars>>
       ELSE /\ gc' = "drain"
            /\ uv' = [o \in Clients |->
                         IF uv[o] = "open" THEN "closing" ELSE uv[o]]
            /\ closer' = [h \in Handles |->
                             IF uv[h] = "open" THEN "silent" ELSE closer[h]]
            /\ onclose' = [h \in Handles |-> uv[h] # "closing" /\ onclose[h]]
    /\ UNCHANGED <<ownerVars, loopVars, held, pc, cur>>

\* while (uv_loop_close(...)) uv_run(...): the same callbacks as in loop-run,
\* on the thread of the collector.
DrainClose(h) ==
    /\ gc = "drain" /\ uv[h] = "closing"
    /\ close_callback_wrapper(h)
    /\ UNCHANGED <<mem, gclist, closeVars, loopVars, held, pc, cur, gcVars>>

DrainReq(r, proc) ==
    /\ gc = "drain" /\ uv[r] \in {"flight", "canceled"}
    /\ uv' = [uv EXCEPT ![r] = "done"]
    /\ IF ~link[r] \/ err
       THEN UNCHANGED <<link, refs, pc, gcVars>>
       ELSE /\ ReqCleanUp(r)
            /\ IF proc /\ exe THEN Halt("reentered") ELSE UNCHANGED <<pc, gcVars>>
    /\ UNCHANGED <<mem, gclist, closeVars, loopVars, held, cur>>

\* Mutant: what is left in refs keeps its pointer to the loop.
Bug_RefsLeft ==
    /\ gc = "drain"
    /\ \A o \in Clients : uv[o] \notin Registered
    /\ gc' = "gclist"
    /\ UNCHANGED <<ownerVars, uv, closeVars, loopVars, held, pc, cur, white>>

\* libuv is done with the loop; what is left in refs is unlinked.
DrainEnds ==
    /\ gc = "drain"
    /\ \A o \in Clients : uv[o] \notin Registered
    /\ link' = [o \in Clients |-> o \notin refs /\ link[o]]
    /\ refs' = {}
    /\ gc' = "gclist"
    /\ UNCHANGED <<mem, gclist, uv, closeVars, loopVars, held, pc, cur, white>>

\* Mutant: gclist is not swept.
Bug_GclistKept ==
    /\ gc = "gclist"
    /\ mem' = [mem EXCEPT ![Loop] = "freed"]
    /\ gclist' = <<>>
    /\ gc' = "sweep"
    /\ UNCHANGED <<link, refs, uv, closeVars, loopVars, held, pc, cur, white>>

\* The objects left to the loop are freed, then the loop.
SweepGclist ==
    /\ gc = "gclist"
    /\ mem' = [o \in Objs |->
                  IF o = Loop \/ \E i \in DOMAIN gclist : gclist[i] = o
                  THEN "freed" ELSE mem[o]]
    /\ gclist' = <<>>
    /\ gc' = "sweep"
    /\ UNCHANGED <<link, refs, uv, closeVars, loopVars, held, pc, cur, white>>

SweepEnds ==
    /\ gc = "sweep" /\ white = {}
    /\ gc' = "off"
    /\ UNCHANGED <<ownerVars, uv, closeVars, loopVars, held, pc, cur, white>>

-----------------------------------------------------------------------------

Program ==
    \/ \E h \in Handles : MakeHandle(h) \/ MakeHandleFails(h)
    \/ \E r \in Reqs : StartReq(r) \/ StartReqFails(r) \/ fuv_req_cancel(r)
    \/ \E h \in Handles, proc \in BOOLEAN :
          fuv_handle_close(h, proc) \/ fuv_tcp_close_reset(h, proc)
    \/ UseClosedLoop \/ fuv_loop_close \/ fuv_loop_run \/ LoopRunRefused
    \/ \E o \in Objs : Fetch(o) \/ Drop(o)

Run ==
    \/ \E h \in Handles : HandleEvent(h) \/ FinishClose(h)
    \/ \E r \in Reqs, proc \in BOOLEAN : FinishReq(r, proc)
    \/ LoopRunReturns \/ CallbackReturns \/ CallbackRaises

\* A sweep, once begun, is finished by the collector alone.
Sweep ==
    \/ \E o \in Clients : FinalizeClient(o)
    \/ FinalizeLoop
    \/ \E h \in Handles : DrainClose(h)
    \/ \E r \in Reqs, proc \in BOOLEAN : DrainReq(r, proc)
    \/ DrainEnds \/ SweepGclist \/ SweepEnds

Next == Program \/ Run \/ Collect \/ Shutdown \/ Sweep

Spec == Init /\ [][Next]_vars

\* The collector works on until its sweep is over, and libuv ends what was
\* started: requests complete or fail, closed handles get their callback.
FairSpec == Spec /\ WF_vars(Sweep)

-----------------------------------------------------------------------------
(* Properties. *)

TypeOK ==
    /\ mem \in [Objs -> {"none", "heap", "delayed", "freed"}]
    /\ link \in [Clients -> BOOLEAN]
    /\ refs \subseteq Clients
    /\ gclist \in Seq(Clients)
    /\ uv \in [Clients -> Registered \cup {"none", "closed", "done"}]
    /\ closer \in [Handles -> Closers]
    /\ onclose \in [Handles -> BOOLEAN]
    /\ closed \in BOOLEAN /\ exe \in BOOLEAN /\ err \in BOOLEAN
    /\ held \subseteq Objs
    /\ pc \in PCs
    /\ cur \in Clients \cup {NoObj}
    /\ gc \in {"off", "sweep", "drain", "gclist"}
    /\ white \subseteq Objs

\* The list refs of a loop that exists holds exactly the objects whose
\* data.loop is set: unlinking an object twice, or one that never was in the
\* list, would empty the list (loop.c, fuvLoopRemoveHandleRef).
RefsExact ==
    mem[Loop] # "freed" => refs = {o \in Clients : link[o]}

\* libuv never keeps a pointer to a handle or request whose memory was freed
\* (loop.c, handle.c and req.c together), cancelled requests aside: req-cancel
\* unlinks those although their callback is still to come.
LibuvObjectsLive ==
    \A o \in Clients :
        uv[o] \in {"open", "closing", "flight"} => mem[o] \in {"heap", "delayed"}

\* What the program holds, or gets from loop-walk and handle-loop, is an object
\* of the collector's list: neither freed nor left to the loop to be freed,
\* although the loop, its list and libuv refer to it by different ways
\* (fuv_loop_atomic, fuv_handle_ud_atomic).
HeldIsAlive == \A o \in held : mem[o] = "heap"

\* No collection frees what libuv or the program still uses, in whatever order it
\* sweeps a loop and what the loop refers to (loop.c, handle.c, req.c).
InUseIsAlive == LibuvObjectsLive /\ HeldIsAlive

\* A loop that was not closed by the program leaves no object behind that
\* points to it: whatever the order of the sweep, the finalizers that follow
\* do not touch the freed loop (fuv_loop_finalize).
LoopTakesRefsAlong ==
    mem[Loop] = "freed" /\ ~closed => \A o \in Clients : ~link[o]

\* An object whose finalization was delayed waits in the list of its loop and
\* goes with it, so that nothing is left when the process has swept all.
NothingStranded ==
    /\ \A o \in Clients : mem[o] = "delayed" =>
           /\ \E i \in DOMAIN gclist : gclist[i] = o
           /\ mem[Loop] # "freed"
    /\ pc = "over" /\ gc = "off" => \A o \in Objs : mem[o] \in {"none", "freed"}

\* A sweep ends: the finalizer of a loop does not wait for ever for libuv.
SweepTerminates == gc # "off" ~> gc = "off"
=============================================================================
