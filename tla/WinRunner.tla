------------------------------ MODULE WinRunner -----------------------------
(***************************************************************************)
(* The Windows runner (wWinMain, Win32Window, FlutterWindow) and, inside   *)
(* its engine, the start-up and the boxes of QuoteStore: what the app has  *)
(* on disk has to survive the user closing its window at any time.         *)
(*                                                                         *)
(* Win32 and the Flutter engine are external.  The process has one thread  *)
(* of its own: a window message is handled in the message loop, or inside  *)
(* the call that sends it (CreateWindow, DestroyWindow).  Sizes, focus and *)
(* theme are left out.                                                     *)
(* Dart and the rasterizer run beside it from the moment the engine is     *)
(* there.  The first frame needs runApp, which main calls once the boxes   *)
(* are initialized.                                                        *)
(*                                                                         *)
(* Operators on w give the runner's state after the call they are named    *)
(* for; the actions apply them.                                            *)
(***************************************************************************)
EXTENDS QuoteStore

VARIABLES
    pc,     \* where wWinMain is; "idle" when no process runs, "returned" at its end
    w       \* the runner's objects and what it holds of the system

runnerVars == <<pc, w>>
allVars == <<vars, runnerVars>>

(* No process: the objects of FlutterWindow, the window class, the window. *)
Gone == [ count |-> 0, registered |-> FALSE, handle |-> FALSE, controller |-> FALSE,
          quitOnClose |-> FALSE,                                \* the program's
          class |-> FALSE, window |-> FALSE, shown |-> FALSE,
          quit |-> FALSE,                                       \* the system's
          frame |-> "none", callback |-> "none" ]               \* the engine's

(* The shape of the runner's state: one window object at most, counted     *)
(* once, and the fields of FlutterWindow, the system and the engine.       *)
RunnerTypeOK ==
    /\ pc \in {"idle", "main", "hosted", "armed", "loop", "returned"}
    /\ w.count \in 0..1
    /\ \A f \in {"registered", "handle", "controller", "quitOnClose",
                 "class", "window", "shown", "quit"} : w[f] \in BOOLEAN
    /\ w.frame \in {"none", "first", "drawn", "pending"}
    /\ w.callback \in {"none", "armed", "due"}

RunnerInit == Init /\ pc = "idle" /\ w = Gone

-----------------------------------------------------------------------------
(* Win32Window.                                                            *)

GetWindowClass(s) == [s EXCEPT !.class = TRUE, !.registered = TRUE]

(* The system keeps a class that has windows.                              *)
UnregisterWindowClass(s) == [s EXCEPT !.class = s.window, !.registered = FALSE]

UnregisterIfLast(s) == IF s.count = 0 THEN UnregisterWindowClass(s) ELSE s

(* Mutant: the controller is kept.                                         *)
OnDestroyNothing(s) == s

(* The engine goes with its controller, and the content window with it.    *)
OnDestroy(s) ==
    [s EXCEPT !.controller = FALSE, !.frame = "none", !.callback = "none"]

(* WM_DESTROY, while the window still exists.  The nested Destroy finds no *)
(* handle.                                                                 *)
HandleDestroy(s) ==
    LET t == UnregisterIfLast(OnDestroy([s EXCEPT !.handle = FALSE]))
    IN  [t EXCEPT !.quit = @ \/ t.quitOnClose]

(* Sends WM_DESTROY; fails for a window that is gone.                      *)
DestroyWindow(s) ==
    IF s.window
      THEN [HandleDestroy(s) EXCEPT !.window = FALSE, !.shown = FALSE]
      ELSE s

Destroy(s) ==
    LET t == OnDestroy(s)
    IN  UnregisterIfLast(IF t.handle THEN [DestroyWindow(t) EXCEPT !.handle = FALSE] ELSE t)

(* ~FlutterWindow and ~Win32Window: the controller, then the count, then   *)
(* Destroy with the base's OnDestroy.                                      *)
Destructor(s) == Destroy([OnDestroy(s) EXCEPT !.count = @ - 1])

(* What CreateWindow leaves when it fails: WM_NCCREATE, which names the    *)
(* window, may have been handled.                                          *)
CreateFailed(s) == {s, [s EXCEPT !.handle = TRUE]}

(* CreateWindow, and FlutterWindow's OnCreate up to the controller.        *)
WithController(s) ==
    [s EXCEPT !.handle = TRUE, !.window = TRUE, !.controller = TRUE, !.frame = "first"]

-----------------------------------------------------------------------------
(* wWinMain.                                                               *)

Running == pc \notin {"idle", "returned"}

(* What Dart has in memory goes with the engine.                           *)
StoreFollows ==
    IF w.controller /\ ~w'.controller /\ phase # "down" THEN Crash ELSE UNCHANGED vars

Launch ==
    /\ ~Running
    /\ pc' = "main"
    /\ w' = [Gone EXCEPT !.count = 1]
    /\ UNCHANGED vars

(* No window, or no engine: EXIT_FAILURE, and the window object goes.      *)
CreateFails ==
    /\ pc = "main"
    /\ LET s == GetWindowClass(Destroy(w))
       IN  \E f \in CreateFailed(s) \cup {WithController(s)} : w' = Destructor(f)
    /\ pc' = "returned"
    /\ UNCHANGED vars

(* The window, the engine and its content; Dart's main starts.             *)
Create ==
    /\ pc = "main"
    /\ w' = WithController(GetWindowClass(Destroy(w)))
    /\ pc' = "hosted"
    /\ UNCHANGED vars

(* The window is to be shown at the next frame.                            *)
SetNextFrameCallback ==
    /\ pc = "hosted"
    /\ w' = [w EXCEPT !.callback = "armed"]
    /\ pc' = "armed"
    /\ UNCHANGED vars

(* Mutant: a first frame drawn before the callback is not repeated.        *)
ReturnFromOnCreate ==
    /\ pc = "armed"
    /\ w' = [w EXCEPT !.quitOnClose = TRUE]
    /\ pc' = "loop"
    /\ UNCHANGED vars

(* Mutant: the window's closing does not quit.                             *)
ForceRedrawOnly ==
    /\ pc = "armed"
    /\ w' = [w EXCEPT !.frame = IF @ = "drawn" THEN "pending" ELSE @]
    /\ pc' = "loop"
    /\ UNCHANGED vars

(* ForceRedraw, for a first frame that was drawn too early; OnCreate and   *)
(* Create return, SetQuitOnClose(true), and the message loop begins.       *)
ForceRedraw ==
    /\ pc = "armed"
    /\ w' = [w EXCEPT !.frame = IF @ = "drawn" THEN "pending" ELSE @, !.quitOnClose = TRUE]
    /\ pc' = "loop"
    /\ UNCHANGED vars

(* The callback's task is dispatched.                                      *)
Show ==
    /\ pc = "loop" /\ w.callback = "due"
    /\ w' = [w EXCEPT !.callback = "none", !.shown = w.handle]
    /\ UNCHANGED <<pc, vars>>

(* WM_CLOSE: the default handling destroys the window.                     *)
CloseWindow ==
    /\ pc = "loop" /\ w.window
    /\ w' = DestroyWindow(w)
    /\ StoreFollows
    /\ UNCHANGED pc

(* GetMessage finds WM_QUIT: main returns, the window object goes.         *)
Quit ==
    /\ pc = "loop" /\ w.quit
    /\ w' = Destructor(w)
    /\ pc' = "returned"
    /\ StoreFollows

-----------------------------------------------------------------------------
(* The engine and the system.                                              *)

DrawFrame ==
    /\ (w.frame = "first" /\ phase = "up") \/ w.frame = "pending"
    /\ w' = [w EXCEPT !.frame = "drawn",
                      !.callback = IF @ = "armed" THEN "due" ELSE @]
    /\ UNCHANGED <<pc, vars>>

(* The app animates.  Once no callback waits a frame changes nothing here. *)
ScheduleFrame ==
    /\ w.frame = "drawn" /\ (pc # "loop" \/ w.callback = "armed")
    /\ w' = [w EXCEPT !.frame = "pending"]
    /\ UNCHANGED <<pc, vars>>

(* The process is killed.                                                  *)
Kill ==
    /\ Running
    /\ pc' = "idle" /\ w' = Gone
    /\ StoreFollows

DartStarts == w.controller /\ Startup /\ UNCHANGED runnerVars
BoxStep == (AppStep \/ \E b \in Boxes : Flush(b)) /\ UNCHANGED runnerVars
MainStep == CreateFails \/ Create \/ SetNextFrameCallback \/ ForceRedraw \/ Show \/ Quit

RunnerNext ==
    \/ Launch \/ MainStep
    \/ CloseWindow
    \/ DrawFrame \/ ScheduleFrame \/ Kill
    \/ DartStarts \/ BoxStep

(* The runner's thread, Dart, the rasterizer and the disk go on; users     *)
(* need not start the app or close it.                                     *)
RunnerSpec ==
    /\ RunnerInit /\ [][RunnerNext]_allVars
    /\ WF_allVars(MainStep) /\ WF_allVars(DrawFrame) /\ WF_allVars(DartStarts)
    /\ \A b \in Boxes : WF_allVars(Flush(b) /\ UNCHANGED runnerVars)

-----------------------------------------------------------------------------
(* Properties.                                                             *)

(* FlutterWindow's handler uses the controller unchecked for WM_FONTCHANGE,*)
(* and the engine draws into the window: in the message loop they exist    *)
(* together or not at all, an engine never outlives its window, and        *)
(* window_handle_ never names a window that is gone.                       *)
EngineWithWindow ==
    /\ pc = "loop" => (w.window <=> w.controller)
    /\ w.controller => w.window
    /\ w.handle => w.window

(* However wWinMain returns (CreateWindow or the engine failed, before or  *)
(* after WM_NCCREATE, or the window was closed), the destructors leave no  *)
(* engine, window or window class behind, although the handler of          *)
(* WM_DESTROY runs inside them and tries to unregister the class of a      *)
(* window that still exists.                                               *)
ExitLeavesNothing ==
    pc = "returned" =>
        /\ ~w.class /\ ~w.window /\ ~w.controller /\ phase = "down"
        /\ ~w.registered /\ ~w.handle /\ w.count = 0

(* The window, its class, the controller and the engine live and die       *)
(* together, however far a start gets and however it ends.                 *)
RunnerOK == RunnerTypeOK /\ EngineWithWindow /\ ExitLeavesNothing

(* If the app is left running it comes up, wherever earlier processes were *)
(* killed or their windows closed.                                         *)
ComesUp == <>[]w.controller => <>[](phase = "up")

(* The window is created hidden and shown by the callback of the next      *)
(* frame.  It does get shown, also when "Flutter can complete the first    *)
(* frame before the 'show window' callback is registered"                  *)
(* (flutter_window.cpp:34).                                                *)
WindowShows == <>[]w.controller => <>[]w.shown

(* "If true, closing this window will quit the application"                *)
(* (win32_window.h:52): a process does not stay without its window.        *)
CloseQuits == (pc = "loop" /\ ~w.window) ~> ~Running
=============================================================================
