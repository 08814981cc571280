---------------------------- MODULE SystemAccess ----------------------------
(***************************************************************************)
(* What the emulation thread promises to the rest of the application: the  *)
(* emulated system is used by one party at a time.  A frame runs only while *)
(* emulation is live, and never while a SuspendContext owns the system.    *)
(* This is the abstract specification; EmuSystemTask implements it.        *)
(***************************************************************************)
VARIABLES
    live,     \* emulation has been started and not stopped
    frame,    \* a frame callback is advancing the system
    context   \* a SuspendContext owns the system

vars == <<live, frame, context>>

TypeOK == live \in BOOLEAN /\ frame \in BOOLEAN /\ context \in BOOLEAN

Init == ~live /\ ~frame /\ ~context

GoLive == ~live /\ live' = TRUE /\ UNCHANGED <<frame, context>>

BeginFrame ==
    /\ live /\ ~frame /\ ~context
    /\ frame' = TRUE
    /\ UNCHANGED <<live, context>>

EndFrame == frame /\ frame' = FALSE /\ UNCHANGED <<live, context>>

EnterContext ==
    /\ live /\ ~frame /\ ~context
    /\ context' = TRUE
    /\ UNCHANGED <<live, frame>>

LeaveContext == context /\ context' = FALSE /\ UNCHANGED <<live, frame>>

\* Emulation ends between two frames and outside every context.
GoDown ==
    /\ live /\ ~frame /\ ~context
    /\ live' = FALSE
    /\ UNCHANGED <<frame, context>>

Next == GoLive \/ BeginFrame \/ EndFrame \/ EnterContext \/ LeaveContext \/ GoDown

Spec == Init /\ [][Next]_vars

=============================================================================
