----------------------------- MODULE Generation -----------------------------
(***************************************************************************)
(* StableDiffusion.  A generation runs inside one call; its library has    *)
(* one log callback and one progress callback for the whole process, which *)
(* the module points at the object that generates.  The progress callback  *)
(* may run a function of the script, and that function may do anything.    *)
(***************************************************************************)
EXTENDS Databases

CONSTANTS
    Steps       \* progress callbacks of one generation

ASSUME GenerationAssumption == Steps \in Nat

VARIABLES
    contexts,   \* contexts_: key |-> the handle of its model or 0
    ticks,      \* progress_: key |-> the objects whose steps it recorded
    active,     \* g_activeModule, g_activeId and g_progressHandler
    running     \* the generations that have begun, and not ended

sdVars == <<contexts, ticks, active, running>>

Capture == [on : BOOLEAN, id : {0} \cup Keys, handler : BOOLEAN]
Frame   == [id : Keys, uses : Nat, upscaler : BOOLEAN, handler : BOOLEAN, left : 0..Steps,
            at : {"library", "handler"}, missed : BOOLEAN, nested : BOOLEAN]

GenerationTypeOK ==
    /\ contexts \in [Keys -> Nat]
    /\ ticks \in [Keys -> Seq(Keys)]
    /\ active \in Capture
    /\ running \in Seq(Frame)

GenerationInit ==
    /\ contexts = [k \in Keys |-> 0]
    /\ ticks = [k \in Keys |-> <<>>]
    /\ active = [on |-> FALSE, id |-> 0, handler |-> FALSE]
    /\ running = <<>>

Depth == Len(running)
Top   == running[Depth]

\* The script has control: nothing generates, or a handler runs.
InScript == Depth > 0 => Top.at = "handler"

-----------------------------------------------------------------------------
(* The model of an object. *)

SdNew == Make("StableDiffusion") /\ UNCHANGED <<library, sdVars>>

\* The old model goes first; the new one may not load.
LoadModel(o) ==
    LET lib == Closed(library, contexts[Key(o)])
    IN  /\ Is(o, "StableDiffusion") /\ Identify(o)
        /\ \/ /\ library' = Opened(lib, "StableDiffusion", "used")
              /\ contexts' = [contexts EXCEPT ![Key(o)] = NextHandle(lib)]
           \/ /\ library' = lib
              /\ contexts' = [contexts EXCEPT ![Key(o)] = 0]
        /\ UNCHANGED <<ticks, active, running>>

Unload(o) ==
    /\ Is(o, "StableDiffusion") /\ Identify(o) /\ contexts[Key(o)] # 0
    /\ library' = Closed(library, contexts[Key(o)])
    /\ contexts' = [contexts EXCEPT ![Key(o)] = 0]
    /\ UNCHANGED <<ticks, active, running>>

ClearLog(o) ==
    /\ Is(o, "StableDiffusion") /\ Identify(o)
    /\ ticks' = [ticks EXCEPT ![Key(o)] = <<>>]
    /\ UNCHANGED <<library, contexts, active, running>>

-----------------------------------------------------------------------------
(* Generating. *)

BeginCapture(k, handler) == active' = [on |-> TRUE, id |-> k, handler |-> handler]

\* Mutant: the next begin will overwrite it.
KeepCapture == active' = active

EndCapture == active' = [active EXCEPT !.on = FALSE, !.handler = FALSE]

\* A capture of its own, inside those that run.
Nested == [i \in 1..Depth |-> [running[i] EXCEPT !.nested = TRUE]]

Begin(k, uses, upscaler, handler) ==
    /\ BeginCapture(k, handler)
    /\ running' = Append(Nested, [id |-> k, uses |-> uses, upscaler |-> upscaler,
                                  handler |-> handler, left |-> Steps, at |-> "library",
                                  missed |-> FALSE, nested |-> FALSE])
    /\ UNCHANGED <<contexts, ticks>>

\* txt2img(), img2img() and video().
Generate(o) ==
    /\ Is(o, "StableDiffusion") /\ Identify(o) /\ contexts[Key(o)] # 0
    /\ \E handler \in BOOLEAN : Begin(Key(o), contexts[Key(o)], FALSE, handler)
    /\ UNCHANGED library

\* upscale(), with a context of its own.
Upscale(o) ==
    /\ Is(o, "StableDiffusion") /\ Identify(o)
    /\ library' = Opened(library, "upscaler", "used")
    /\ \E handler \in BOOLEAN : Begin(Key(o), NextHandle(library), TRUE, handler)

\* A later image of a generation cannot be loaded, or a later option is
\* refused, and the call throws: the images that it had loaded stay.
InputFails(o) ==
    /\ Is(o, "StableDiffusion") /\ Identify(o) /\ contexts[Key(o)] # 0
    /\ library' = Opened(library, "input", "used")
    /\ UNCHANGED sdVars

\* upscale() has its context, which no upscaling uses yet, and throws: the
\* context stays, with the image if it is the handler that was refused.
UpscaleFails(o) ==
    /\ Is(o, "StableDiffusion") /\ Identify(o)
    /\ LET lib == Opened(library, "upscaler", "new")
       IN  library' \in {lib, Opened(lib, "input", "used")}
    /\ UNCHANGED sdVars

\* loadControlNet() captures too, and nothing calls back.
LoadControlNet(o) ==
    /\ Is(o, "StableDiffusion") /\ Identify(o) /\ contexts[Key(o)] # 0
    /\ active' = [on |-> FALSE, id |-> Key(o), handler |-> FALSE]
    /\ running' = Nested
    /\ UNCHANGED <<library, contexts, ticks>>

\* The library works with what a handler has freed: nothing shows, or this.
Crash ==
    /\ Depth > 0 /\ Top.at = "library" /\ ~library[Top.uses].open
    /\ over' = "crashed"
    /\ UNCHANGED <<library, sdVars>>

\* progressTrampoline(): recorded for the active object, and then the active
\* handler runs.
Tick ==
    /\ Depth > 0 /\ Top.at = "library" /\ Top.left > 0
    /\ ticks' = IF active.on THEN [ticks EXCEPT ![active.id] = Append(@, Top.id)] ELSE ticks
    /\ running' = [running EXCEPT
          ![Depth].left = @ - 1,
          ![Depth].at = IF active.handler THEN "handler" ELSE @,
          ![Depth].missed = @ \/ ~active.on \/ active.handler # Top.handler]
    /\ UNCHANGED <<library, contexts, active, over>>

\* It returns, or throws, which is caught.
HandlerReturns ==
    /\ Depth > 0 /\ Top.at = "handler"
    /\ running' = [running EXCEPT ![Depth].at = "library"]
    /\ UNCHANGED <<library, contexts, ticks, active, over>>

\* With images or without.
End ==
    /\ Depth > 0 /\ Top.at = "library" /\ Top.left = 0
    /\ EndCapture
    /\ library' = IF Top.upscaler THEN Closed(library, Top.uses) ELSE library
    /\ running' = SubSeq(running, 1, Depth - 1)
    /\ UNCHANGED <<contexts, ticks, over>>

-----------------------------------------------------------------------------
GenerationCall(o) == \/ LoadModel(o) \/ Unload(o) \/ ClearLog(o) \/ Generate(o)
                     \/ Upscale(o) \/ InputFails(o) \/ UpscaleFails(o) \/ LoadControlNet(o)

GenerationStep == Tick \/ Crash \/ HandlerReturns \/ End
=============================================================================
