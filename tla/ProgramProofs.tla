---------------------------- MODULE ProgramProofs ----------------------------
(* What holds of the engine's process for any calls and any drivers.       *)
EXTENDS Program, TLAPS

(* Where main may be while calls may run.                                  *)
Serving == {"listening", "looping", "drawn", "closing", "draining"}

(* Where main may be while there are both a context and its functions.     *)
Drawing == Serving \cup {"graphics_made", "stores_made", "service_made",
                         "server_gone", "service_gone", "stores_gone",
                         "graphics_gone"}

Elsewhere == {"start", "window_made", "aborted", "exited"}

(* Main's place tells what exists.                                         *)
IInv ==
  /\ constructed \subseteq {"window", "graphics", "stores", "service", "server"}
  /\ context \in Versions \cup {NoContext}
  /\ bound \subseteq Group10 \cup Group11
  /\ called \subseteq Group10 \cup Group11
  /\ running \in [Calls -> {"none", Unary, Stream}]
  /\ at \in Drawing \cup Elsewhere
  /\ at \in Serving => "service" \in constructed
  /\ at = "server_gone" => "service" \in constructed
  /\ at = "service_made" => "service" \in constructed
  /\ at = "draining" => ~accepting
  /\ at \notin Serving => ~accepting /\ \A c \in Calls : running[c] = "none"
  /\ at = "window_made" => context \in Versions /\ context >= Hinted
  /\ at \in Drawing => /\ context \in Versions /\ context >= Hinted
                       /\ bound = Group10 \cup Group11
  /\ at \notin Drawing => called = {}

(* A window of the version asked for has every function that is called.    *)
LEMMA LoadedForHinted ==
  ASSUME NEW v \in Versions, v >= Hinted
  PROVE  LoadedFor(v) = Group10 \cup Group11 /\ v # NoContext
BY VersionsAssumption, SMT DEF LoadedFor, Hinted, NoContext

(* The close flag is one, always.                                          *)
LEMMA Flag == Spec => [](shouldClose \in BOOLEAN)
<1>1. Init => shouldClose \in BOOLEAN
  BY Zenon DEF Init
<1>2. shouldClose \in BOOLEAN /\ [Next]_vars => (shouldClose \in BOOLEAN)'
  BY Zenon DEF Next, Main, Ended, vars, WindowContext, GraphicsContext, SetUpICS,
     SetUpService, BuildAndStart, GRPCServer, DrawFrame, UpdateEvents, LeaveLoop,
     Shutdown, DestroyServer, DestroyService, DestroyICS, DestroyGraphics,
     DestroyWindow, Arrive, Return, CloseStream, Ends, MainStays, Constructs,
     Destroys, Throws
<1> QED
  BY <1>1, <1>2, PTL DEF Spec

LEMMA InitIInv == Init => IInv
BY SMT DEF Init, IInv, Serving, Drawing, Elsewhere, Group10, Group11, Unary,
           Stream, NoContext

(* Every step keeps main's place and what exists together.                 *)
LEMMA NextIInv == IInv /\ [Next]_vars => IInv'
<1> SUFFICES ASSUME IInv, [Next]_vars PROVE IInv'
  OBVIOUS
<1> USE DEF IInv, Serving, Drawing, Elsewhere, Moves, Constructs, Destroys,
            Throws, Graphics, Server
<1>0. ASSUME NEW place \in STRING, Throws(place), at \notin Serving PROVE IInv'
  BY <1>0, SMT
<1>1. CASE WindowContext
  <2>1. CASE Throws("start")
    BY <1>0, <2>1, SMT
  <2>2. CASE ~Throws("start")
    <3>1. at' = "window_made" /\ context' \in Versions /\ context' >= Hinted
      BY <1>1, <2>2, Zenon DEF WindowContext
    <3>2. /\ constructed' = constructed \cup {"window"}
          /\ called' = {}
          /\ UNCHANGED <<bound, accepting, running>>
          /\ at = "start"
      BY <1>1, <2>2, Zenon DEF WindowContext
    <3> QED
      BY <3>1, <3>2, SMT
  <2> QED
    BY <2>1, <2>2
<1>2. CASE GraphicsContext
  <2>1. CASE Throws("window_made")
    BY <1>0, <2>1, SMT
  <2>2. CASE ~Throws("window_made")
    <3>1. /\ at = "window_made" /\ at' = "graphics_made"
          /\ constructed' = constructed \cup {"graphics"}
          /\ called' = {}
          /\ bound' = LoadedFor(context)
          /\ UNCHANGED <<context, accepting, running>>
      BY <1>2, <2>2, Zenon DEF GraphicsContext
    <3>2. LoadedFor(context) = Group10 \cup Group11
      BY <3>1, LoadedForHinted, SMT
    <3> QED
      BY <3>1, <3>2, SMT
  <2> QED
    BY <2>1, <2>2
<1>3. CASE SetUpICS
  BY <1>3, SMT DEF SetUpICS
<1>4. CASE SetUpService
  <2>1. CASE Throws("stores_made")
    BY <1>0, <2>1, SMT
  <2>2. CASE ~Throws("stores_made")
    <3>1. /\ at = "stores_made" /\ at' = "service_made"
          /\ constructed' = constructed \cup {"service"}
          /\ called' = {}
          /\ UNCHANGED <<context, bound, accepting, running>>
      BY <1>4, <2>2, Zenon DEF SetUpService
    <3> QED
      BY <3>1, SMT
  <2> QED
    BY <2>1, <2>2
<1>5. CASE BuildAndStart
  <2>1. CASE Throws("service_made")
    BY <1>0, <2>1, SMT
  <2>2. CASE ~Throws("service_made")
    <3>1. /\ at = "service_made" /\ at' = "listening"
          /\ UNCHANGED <<constructed, called, running, context, bound>>
      BY <1>5, <2>2, Zenon DEF BuildAndStart
    <3> QED
      BY <3>1, SMT
  <2> QED
    BY <2>1, <2>2
<1>6. CASE GRPCServer
  BY <1>6, SMT DEF GRPCServer
<1>7. CASE DrawFrame
  BY <1>7, SMT DEF DrawFrame, Group10
<1>8. CASE UpdateEvents \/ LeaveLoop
  <2>1. /\ at \in {"drawn", "looping"} /\ at' \in {"looping", "closing"}
        /\ called' \in {{}, {"glViewport"}}
        /\ UNCHANGED <<constructed, context, bound, accepting, running>>
    BY <1>8, Zenon DEF UpdateEvents, LeaveLoop
  <2> QED
    BY <2>1, SMT DEF Group10
<1>9. CASE Shutdown
  <2>1. /\ at = "closing" /\ at' = "draining"
        /\ called' = {}
        /\ UNCHANGED <<constructed, context, bound, running>>
    BY <1>9, Zenon DEF Shutdown
  <2>2. ~accepting'
    BY <1>9, Zenon DEF Shutdown
  <2> QED
    BY <2>1, <2>2, SMT
<1>10. CASE DestroyServer
  <2>1. /\ at = "draining" /\ at' = "server_gone"
        /\ constructed' = constructed \ {"server"}
        /\ called' = {}
        /\ \A c \in Calls : running[c] = "none"
        /\ UNCHANGED <<context, bound, accepting, running>>
    BY <1>10, Zenon DEF DestroyServer
  <2> QED
    BY <2>1, SMT
<1>11. CASE DestroyService \/ DestroyICS \/ DestroyGraphics \/ DestroyWindow
  <2>1. CASE DestroyService \/ DestroyICS
    <3>1. /\ at \in {"server_gone", "service_gone"}
          /\ at' \in {"service_gone", "stores_gone"}
          /\ constructed' \in {constructed \ {"service"}, constructed \ {"stores"}}
          /\ called' = {}
          /\ UNCHANGED <<context, bound, accepting, running>>
      BY <2>1, Zenon DEF DestroyService, DestroyICS
    <3> QED
      BY <3>1, SMT
  <2>2. CASE DestroyGraphics
    <3>1. /\ at = "stores_gone" /\ at' = "graphics_gone"
          /\ constructed' = constructed \ {"graphics"}
          /\ called' = {"glBindTexture"}
          /\ UNCHANGED <<context, bound, accepting, running>>
      BY <2>2, Zenon DEF DestroyGraphics
    <3> QED
      BY <3>1, SMT DEF Group11
  <2>3. CASE DestroyWindow
    <3>1. /\ at = "graphics_gone" /\ at' = "exited"
          /\ constructed' = constructed \ {"window"}
          /\ context' = NoContext
          /\ called' = {}
          /\ UNCHANGED <<bound, accepting, running>>
      BY <2>3, Zenon DEF DestroyWindow
    <3> QED
      BY <3>1, SMT
  <2> QED
    BY <1>11, <2>1, <2>2, <2>3
<1>12. ASSUME NEW c \in Calls, Arrive(c) \/ Return(c) \/ CloseStream(c)
       PROVE  IInv'
  <2>1. UNCHANGED <<at, constructed, context, bound, called, accepting>>
    BY <1>12, Zenon DEF Arrive, Return, CloseStream, Ends, MainStays
  <2>2. at \in Serving
    <3>1. CASE Arrive(c)
      BY <3>1, Zenon DEF Arrive
    <3>2. CASE Return(c) \/ CloseStream(c)
      BY <3>2, SMT DEF Return, CloseStream, Ends, Unary, Stream
    <3> QED
      BY <1>12, <3>1, <3>2
  <2>3. running' \in [Calls -> {"none", Unary, Stream}]
    BY <1>12, SMT DEF Arrive, Return, CloseStream, Ends
  <2> QED
    BY <2>1, <2>2, <2>3, SMT
<1>13. CASE UNCHANGED vars
  BY <1>13, SMT DEF vars
<1> QED
  BY <1>1, <1>2, <1>3, <1>4, <1>5, <1>6, <1>7, <1>8, <1>9, <1>10, <1>11, <1>12, <1>13
     DEF Next, Main, Ended

THEOREM Invariance == Spec => []IInv
BY InitIInv, NextIInv, PTL DEF Spec

(* The shape of the state, whatever calls arrive and whatever fails.       *)
THEOREM TypeCorrect == Spec => []TypeOK
<1>1. IInv /\ shouldClose \in BOOLEAN => TypeOK
  BY Zenon DEF IInv, TypeOK, Serving
<1> QED
  BY Invariance, Flag, <1>1, PTL

(* Handlers never run without the service, from the first call, which may  *)
(* arrive while main still constructs the server, to the last one that     *)
(* ~GRPCServer waits for.                                                  *)
THEOREM HandlersSafe == Spec => []HandlersHaveService
<1>1. IInv => HandlersHaveService
  BY SMT DEF IInv, HandlersHaveService, Serving
<1> QED
  BY Invariance, <1>1, PTL

(* OpenGL is called only when there is a context and glad has found what   *)
(* is called, whatever versions drivers have.                              *)
THEOREM OpenGLSafe == Spec => []OpenGLReady
<1>1. IInv => OpenGLReady
  BY LoadedForHinted, SMT DEF IInv, OpenGLReady, NoContext
<1> QED
  BY Invariance, <1>1, PTL
=============================================================================
