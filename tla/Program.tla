------------------------------- MODULE Program -------------------------------
(***************************************************************************)
(* The engine's process (sim/src/main.cpp): the main thread constructs the *)
(* window, the graphics, the stores, the service and the gRPC server, runs *)
(* frames until the window is closed, and destroys what it constructed;    *)
(* calls arrive on gRPC's threads all the while.  What handlers do is the  *)
(* subject of EngineService: here they only start and end.                 *)
(*                                                                         *)
(* Nothing catches what main's constructors throw, so a failure aborts the *)
(* process before any destructor runs.  GLFW, OpenGL and gRPC are modelled *)
(* as the code uses them: GLFW creates a context of at least the version   *)
(* asked for or none, and gRPC's Shutdown() turns new calls away and waits *)
(* for those that run.                                                     *)
(*                                                                         *)
(* A definition Bug<Name> is a mutated form of <Name> that the             *)
(* specification does not use.                                             *)
(***************************************************************************)
EXTENDS Naturals

CONSTANTS
  Calls,       \* calls that clients may have under way at a time
  Versions     \* OpenGL versions of drivers, major and minor as in 33

ASSUME VersionsAssumption == Versions \subseteq Nat

VARIABLES
  at,          \* how far main is
  constructed, \* what main has constructed and not yet destroyed
  context,     \* version of the current OpenGL context, or NoContext
  bound,       \* the OpenGL functions that glad found
  called,      \* the OpenGL functions that main's last step called
  shouldClose, \* the close flag of the window
  accepting,   \* whether the server takes new calls
  running      \* what runs for each call

vars == <<at, constructed, context, bound, called, shouldClose, accepting, running>>

NoContext == 0
Unary == "unary"     \* a call of the engine service
Stream == "stream"   \* a stream of the reflection service, ended by its client

Graphics == <<context, bound>>
Server == <<accepting, running>>

-----------------------------------------------------------------------------
(* The functions the program calls, by the version that brought them.      *)
Group10 == {"glClear", "glClearColor", "glViewport"}
Group11 == {"glBindTexture", "glDeleteTextures"}

(* find_coreGL() and the load_GL_VERSION_ functions. *)
LoadedFor(version) ==
  (IF version >= 10 THEN Group10 ELSE {}) \cup (IF version >= 11 THEN Group11 ELSE {})

BugHinted == 0

(* glfwWindowHint() in the constructor of WindowContext. *)
Hinted == 33

Init ==
  /\ at = "start"
  /\ constructed = {}
  /\ context = NoContext
  /\ bound = {}
  /\ called = {}
  /\ shouldClose = FALSE
  /\ accepting = FALSE
  /\ running = [c \in Calls |-> "none"]

-----------------------------------------------------------------------------
(* Construction.                                                           *)

Moves(from, to) == at = from /\ at' = to

Constructs(object, from, to) ==
  /\ Moves(from, to)
  /\ constructed' = constructed \cup {object}
  /\ called' = {}
  /\ UNCHANGED shouldClose

Throws(from) ==
  /\ Moves(from, "aborted")
  /\ called' = {}
  /\ UNCHANGED <<constructed, shouldClose, Graphics, Server>>

WindowContext ==
  \/ /\ Constructs("window", "start", "window_made")
     /\ context' \in {v \in Versions : v >= Hinted}
     /\ UNCHANGED <<bound, Server>>
  \/ Throws("start")

BugGraphicsContext ==
  /\ Constructs("graphics", "window_made", "graphics_made")
  /\ bound' \in {LoadedFor(context), {}}
  /\ UNCHANGED <<context, Server>>

GraphicsContext ==
  \/ /\ Constructs("graphics", "window_made", "graphics_made")
     /\ bound' = LoadedFor(context)
     /\ UNCHANGED <<context, Server>>
  \/ Throws("window_made")

(* The stores, with four textures, and the systems. *)
SetUpICS ==
  /\ Constructs("stores", "graphics_made", "stores_made")
  /\ UNCHANGED <<Graphics, Server>>

(* BENTOBOX_SIM_PORT may not be a number, which stoi() throws for. *)
SetUpService ==
  \/ /\ Constructs("service", "stores_made", "service_made")
     /\ UNCHANGED <<Graphics, Server>>
  \/ Throws("stores_made")

(* BuildAndStart(): calls are taken from here on, or the address cannot be *)
(* listened on and the constructor throws.                                 *)
BuildAndStart ==
  \/ /\ Moves("service_made", "listening")
     /\ accepting' = TRUE
     /\ UNCHANGED <<constructed, called, shouldClose, running, Graphics>>
  \/ Throws("service_made")

(* The rest of the constructor tells health checks that it is serving.     *)
GRPCServer ==
  /\ Constructs("server", "listening", "looping")
  /\ UNCHANGED <<Graphics, Server>>

-----------------------------------------------------------------------------
(* Frames.                                                                 *)

DrawFrame ==
  /\ ~shouldClose
  /\ Moves("looping", "drawn")
  /\ called' = {"glClearColor", "glClear"}
  /\ UNCHANGED <<constructed, shouldClose, Graphics, Server>>

(* Events may set the close flag or resize the frame, whose callback calls *)
(* OpenGL.                                                                 *)
UpdateEvents ==
  /\ Moves("drawn", "looping")
  /\ shouldClose' \in BOOLEAN
  /\ called' \in {{}, {"glViewport"}}
  /\ UNCHANGED <<constructed, Graphics, Server>>

LeaveLoop ==
  /\ shouldClose
  /\ Moves("looping", "closing")
  /\ called' = {}
  /\ UNCHANGED <<constructed, shouldClose, Graphics, Server>>

-----------------------------------------------------------------------------
(* Destruction, in the reverse order of construction.                      *)

Destroys(object, from, to) ==
  /\ Moves(from, to)
  /\ constructed' = constructed \ {object}
  /\ UNCHANGED shouldClose

BugShutdown ==
  /\ Moves("closing", "draining")
  /\ called' = {}
  /\ UNCHANGED <<accepting, constructed, shouldClose, running, Graphics>>

(* Shutdown() turns new calls away ...                                     *)
Shutdown ==
  /\ Moves("closing", "draining")
  /\ accepting' = FALSE
  /\ called' = {}
  /\ UNCHANGED <<constructed, shouldClose, running, Graphics>>

BugDestroyServer ==
  /\ Destroys("server", "draining", "server_gone")
  /\ called' = {}
  /\ UNCHANGED <<Graphics, Server>>

(* ... and returns when none runs. *)
DestroyServer ==
  /\ \A c \in Calls : running[c] = "none"
  /\ Destroys("server", "draining", "server_gone")
  /\ called' = {}
  /\ UNCHANGED <<Graphics, Server>>

DestroyService ==
  /\ Destroys("service", "server_gone", "service_gone")
  /\ called' = {}
  /\ UNCHANGED <<Graphics, Server>>

DestroyICS ==
  /\ Destroys("stores", "service_gone", "stores_gone")
  /\ called' = {}
  /\ UNCHANGED <<Graphics, Server>>

(* No texture is ever cached, so there are none to delete. *)
DestroyGraphics ==
  /\ Destroys("graphics", "stores_gone", "graphics_gone")
  /\ called' = {"glBindTexture"}
  /\ UNCHANGED <<Graphics, Server>>

(* glfwTerminate() destroys the context. *)
DestroyWindow ==
  /\ Destroys("window", "graphics_gone", "exited")
  /\ context' = NoContext
  /\ called' = {}
  /\ UNCHANGED <<bound, Server>>

-----------------------------------------------------------------------------
(* gRPC's threads.                                                         *)

MainStays == UNCHANGED <<at, constructed, shouldClose, called, Graphics, accepting>>

Arrive(c) ==
  /\ accepting
  /\ running[c] = "none"
  /\ \E kind \in {Unary, Stream} : running' = [running EXCEPT ![c] = kind]
  /\ MainStays

Ends(c, kind) ==
  /\ running[c] = kind
  /\ running' = [running EXCEPT ![c] = "none"]
  /\ MainStays

Return(c) == Ends(c, Unary)
CloseStream(c) == Ends(c, Stream)

-----------------------------------------------------------------------------
Main ==
  \/ WindowContext \/ GraphicsContext \/ SetUpICS \/ SetUpService
  \/ BuildAndStart \/ GRPCServer
  \/ DrawFrame \/ UpdateEvents \/ LeaveLoop
  \/ Shutdown \/ DestroyServer \/ DestroyService \/ DestroyICS
  \/ DestroyGraphics \/ DestroyWindow

Ended == at \in {"aborted", "exited"} /\ UNCHANGED vars

Next ==
  \/ Main
  \/ \E c \in Calls : Arrive(c) \/ Return(c) \/ CloseStream(c)
  \/ Ended

(* Threads are scheduled, and handlers of the engine service end by        *)
(* themselves.  Nothing makes a client end its stream.                     *)
Spec ==
  /\ Init /\ [][Next]_vars
  /\ WF_vars(Main)
  /\ \A c \in Calls : WF_vars(Return(c))

-----------------------------------------------------------------------------
(***************************************************************************)
(* The shape of the state.                                                 *)
(***************************************************************************)
TypeOK ==
  /\ constructed \subseteq {"window", "graphics", "stores", "service", "server"}
  /\ context \in Versions \cup {NoContext}
  /\ bound \subseteq Group10 \cup Group11
  /\ called \subseteq Group10 \cup Group11
  /\ shouldClose \in BOOLEAN
  /\ accepting => "service" \in constructed
  /\ running \in [Calls -> {"none", Unary, Stream}]

(***************************************************************************)
(* No handler runs without the service whose member it is, and whose map   *)
(* of simulations it uses: not as the process starts, when calls arrive    *)
(* before the constructor of the server has returned, nor as it ends, when *)
(* handlers are under way (main.cpp:98-100, grpcServer.h:43).               *)
(***************************************************************************)
HandlersHaveService ==
  \A c \in Calls : running[c] # "none" => "service" \in constructed

(***************************************************************************)
(* OpenGL is called only through pointers that glad has found and while    *)
(* there is a context: in frames, in the callback that is registered       *)
(* before glad loads anything (windowContext.cpp:28), and in the           *)
(* destructor of the graphics (graphicsContext.cpp:15-21).                 *)
(***************************************************************************)
OpenGLReady ==
  called # {} => context # NoContext /\ called \subseteq bound

(***************************************************************************)
(* When the window is closed the process ends, however many calls keep     *)
(* arriving: the only thing that can hold it up is a stream whose client   *)
(* never ends it, as Shutdown() waits without a deadline                   *)
(* (grpcServer.h:49).                                                      *)
(***************************************************************************)
ClosedThenExits ==
  <>[](\A c \in Calls : running[c] # Stream)
    => (shouldClose /\ at = "looping" ~> at = "exited")
=============================================================================
