------------------------------ MODULE Scanner ------------------------------
(***************************************************************************)
(* The road scanner of the web app (scan.js): one page that shows the      *)
(* camera or a sample image, runs a detector on it and draws its boxes,    *)
(* while the person taps, the page is hidden and the engine is replaced.   *)
(* Each async function is cut at its awaits.                               *)
(*                                                                         *)
(* S.gen is the ticket that stopAll and detectStill take away: a start or  *)
(* a pass is fresh until then.  A photo or a video that is opened goes the *)
(* way of a sample and of the camera and is left out.                      *)
(***************************************************************************)
EXTENDS Naturals, Sequences, FiniteSets

CONSTANTS
    Streams, NoStream,  \* camera streams, each got by one start
    Passes,             \* bound on the detection passes under way
    MaxPicks,           \* bound on the engines picked, MaxHides on leaving the page
    MaxHides,
    LateImage           \* may another source be chosen while an image loads?

VARIABLES
    source,             \* S.source
    start,              \* start[c]: a startCamera, with its ticket
    light,              \* light[c]: the stream is on
    held,               \* S.stream
    camera,             \* S.camStarting, S.camResume, S.running
    loading,            \* showSample waits for its image
    waiting,            \* a fresh detectStill waits for its turn
    pass,               \* pass[k]: a detection: of what, and its ticket
    busy,               \* S.busy
    timer,              \* S.timer
    hidden,
    engine,             \* S.session and S.cfg, which change together
    jobs, locked,       \* the engine queue, and S.locked
    boxes,              \* S.dets: of what they are
    picks, hides
scanVars == <<source, start, light, held, camera, loading, waiting, pass, busy, timer,
              hidden, engine, jobs, locked, boxes, picks, hides>>

Models == {"wasm", "webgpu"}
Sources == {"none", "camera", "sample"}
NoBoxes == "none"
NoStart == [pc |-> "none", fresh |-> FALSE]
NoPass == [kind |-> "none", of |-> "none", fresh |-> FALSE]
CameraOff == [starting |-> FALSE, resume |-> FALSE, running |-> FALSE]

ScanTypeOK ==
    /\ source \in Sources /\ held \in Streams \cup {NoStream}
    /\ start \in [Streams -> [pc : {"none", "prompt", "playing"}, fresh : BOOLEAN]]
    /\ light \in [Streams -> BOOLEAN]
    /\ camera \in [starting : BOOLEAN, resume : BOOLEAN, running : BOOLEAN]
    /\ pass \in [Passes -> [kind : {"none", "loop", "still"}, of : Sources, fresh : BOOLEAN]]
    /\ {loading, waiting, busy, timer, hidden, locked} \subseteq BOOLEAN
    /\ engine \in Models \cup {"none"}
    /\ boxes \in Sources

\* startEngine, and what its caller does next: boot, or the engine picker.
StartJob(first, auto, next) == [what |-> "start", first |-> first, auto |-> auto, then |-> next, fresh |-> TRUE]
UpgradeJob == [what |-> "upgrade", first |-> "webgpu", auto |-> FALSE, then |-> "none", fresh |-> TRUE]

\* boot: ?ep= and ?source= choose.
ScanInit ==
    /\ source = "none" /\ held = NoStream
    /\ start = [c \in Streams |-> NoStart] /\ light = [c \in Streams |-> FALSE]
    /\ camera = CameraOff
    /\ loading = FALSE /\ waiting = FALSE
    /\ pass = [k \in Passes |-> NoPass] /\ busy = FALSE /\ timer = FALSE
    /\ hidden = FALSE /\ engine = "none" /\ locked = FALSE
    /\ \E next \in Sources : jobs = <<StartJob("wasm", TRUE, next)>>
    /\ boxes = NoBoxes
    /\ picks = 0 /\ hides = 0

-----------------------------------------------------------------------------
(* Tickets *)

Expired(f) == [x \in DOMAIN f |-> [f[x] EXCEPT !.fresh = FALSE]]

MayChoose == LateImage \/ ~loading

\* stopAll: the ticket, the loop, the stream that is held and the boxes go.
StopAll ==
    /\ MayChoose
    /\ pass' = Expired(pass)
    /\ waiting' = FALSE /\ timer' = FALSE
    /\ light' = [c \in Streams |-> light[c] /\ c # held]
    /\ held' = NoStream
    /\ boxes' = NoBoxes

\* startCamera up to getUserMedia.
StartCamera ==
    /\ StopAll
    /\ source' = "camera"
    /\ \E c \in Streams :
         /\ start[c].pc = "none" /\ ~light[c]
         /\ start' = [Expired(start) EXCEPT ![c] = [pc |-> "prompt", fresh |-> TRUE]]
    /\ camera' = [starting |-> TRUE, resume |-> FALSE, running |-> FALSE]
    /\ UNCHANGED loading

\* showSample up to the image; one element, so a later load replaces an earlier one.
ShowSample ==
    /\ StopAll
    /\ source' = "sample"
    /\ loading' = TRUE
    /\ start' = Expired(start)
    /\ camera' = [camera EXCEPT !.starting = FALSE, !.running = FALSE]

-----------------------------------------------------------------------------
(* The person *)

TapCamera ==
    /\ ~hidden /\ engine # "none"
    /\ StartCamera
    /\ UNCHANGED <<busy, hidden, engine, jobs, locked, picks, hides>>

TapSample ==
    /\ ~hidden /\ engine # "none"
    /\ ShowSample
    /\ UNCHANGED <<busy, hidden, engine, jobs, locked, picks, hides>>

\* The toggle, on a camera that runs or is starting.
StopCamera ==
    /\ ~hidden /\ source = "camera" /\ (camera.running \/ camera.starting)
    /\ StopAll
    /\ source' = "none"
    /\ start' = Expired(start)
    /\ camera' = CameraOff
    /\ UNCHANGED <<loading, busy, hidden, engine, jobs, locked, picks, hides>>

\* The picker: stopped at once, and started again once the engine is there.
PickEngine ==
    /\ ~hidden /\ picks < MaxPicks
    /\ StopAll
    /\ start' = Expired(start)
    /\ camera' = [camera EXCEPT !.starting = FALSE, !.running = FALSE]
    /\ \E first \in Models, auto \in BOOLEAN :
         /\ auto => first = "wasm"
         /\ jobs' = Append(Expired(jobs),
               StartJob(first, auto, CASE source = "camera" /\ ~camera.running -> "none"
                                       [] OTHER -> source))
    /\ picks' = picks + 1
    /\ UNCHANGED <<source, loading, busy, hidden, engine, locked, hides>>

\* releaseCamera: hidden, the camera is let go.
Hide ==
    /\ ~hidden /\ hides < MaxHides
    /\ hidden' = TRUE /\ hides' = hides + 1
    /\ IF source = "camera" /\ (camera.running \/ camera.starting \/ held # NoStream)
       THEN /\ StopAll
            /\ start' = Expired(start)
            /\ camera' = [CameraOff EXCEPT !.resume = TRUE]
       ELSE UNCHANGED <<pass, waiting, timer, light, held, boxes, start, camera>>
    /\ UNCHANGED <<source, loading, busy, engine, jobs, locked, picks>>

Show ==
    /\ hidden /\ hidden' = FALSE
    /\ IF camera.resume /\ source = "camera" THEN StartCamera
       ELSE /\ timer' = (timer \/ camera.running)
            /\ UNCHANGED <<source, start, light, held, camera, loading, waiting, pass, boxes>>
    /\ UNCHANGED <<busy, engine, jobs, locked, picks, hides>>

-----------------------------------------------------------------------------
(* The camera comes *)

\* A start lets go of what it got if its ticket has gone.
StaleBySource(c) == source # "camera"            \* variant: only the source is looked at
Stale(c) == ~start[c].fresh \/ source # "camera"

Permitted(c) ==
    /\ start[c].pc = "prompt"
    /\ IF Stale(c)
       THEN start' = [start EXCEPT ![c] = NoStart] /\ UNCHANGED <<light, held>>
       ELSE /\ start' = [start EXCEPT ![c].pc = "playing"]
            /\ light' = [light EXCEPT ![c] = TRUE]
            /\ held' = c
    /\ UNCHANGED <<source, camera, loading, waiting, pass, busy, timer, hidden, engine, jobs, locked,
                   boxes, picks, hides>>

\* Refused, or play() fails: the stream that play() had stays held.
StartFails(c) ==
    /\ start[c].pc # "none"
    /\ start' = [start EXCEPT ![c] = NoStart]
    /\ camera' = [camera EXCEPT !.starting = @ /\ Stale(c)]
    /\ UNCHANGED <<source, light, held, loading, waiting, pass, busy, timer, hidden, engine, jobs,
                   locked, boxes, picks, hides>>

NewPass(k, kind, of) ==
    /\ pass[k] = NoPass
    /\ pass' = [pass EXCEPT ![k] = [kind |-> kind, of |-> of, fresh |-> TRUE]]

\* loop(): later while the engine changes or the page is hidden.  It asks for no turn.
Loop ==
    \/ (locked \/ hidden) /\ timer' = TRUE /\ UNCHANGED <<pass, busy>>
    \/ /\ ~locked /\ ~hidden
       /\ \E k \in Passes : NewPass(k, "loop", "camera")
       /\ busy' = TRUE /\ timer' = FALSE

Plays(c) ==
    /\ start[c].pc = "playing"
    /\ start' = [start EXCEPT ![c] = NoStart]
    /\ IF Stale(c) THEN UNCHANGED <<camera, pass, busy, timer>>
       ELSE camera' = [camera EXCEPT !.starting = FALSE, !.running = TRUE] /\ Loop
    /\ UNCHANGED <<source, light, held, loading, waiting, hidden, engine, jobs, locked, boxes, picks, hides>>

\* The timer is cleared with the loop, so it never fires on a stopped one.
LoopAgain ==
    /\ timer /\ camera.running
    /\ Loop
    /\ UNCHANGED <<source, start, light, held, camera, loading, waiting, hidden, engine, jobs, locked,
                   boxes, picks, hides>>

-----------------------------------------------------------------------------
(* The image comes *)

\* detectStill takes a new ticket, without stopping anything.
Loaded ==
    /\ loading /\ loading' = FALSE
    /\ waiting' = TRUE
    /\ start' = Expired(start) /\ pass' = Expired(pass)
    /\ UNCHANGED <<source, light, held, camera, busy, timer, hidden, engine, jobs, locked, boxes, picks, hides>>

LoadFails ==
    /\ loading /\ loading' = FALSE
    /\ UNCHANGED <<source, start, light, held, camera, waiting, pass, busy, timer, hidden, engine, jobs,
                   locked, boxes, picks, hides>>

StillPass ==
    /\ waiting /\ ~busy /\ ~locked
    /\ waiting' = FALSE /\ busy' = TRUE
    /\ \E k \in Passes : NewPass(k, "still", "sample")
    /\ UNCHANGED <<source, start, light, held, camera, loading, timer, hidden, engine, jobs, locked,
                   boxes, picks, hides>>

-----------------------------------------------------------------------------
(* A pass ends *)

\* What is looked at after the await.
DrawnAnyway(k) == TRUE                          \* variant: a late pass is drawn
IsDrawn(k) == pass[k].fresh /\ (pass[k].kind = "loop" => camera.running)

PassDone(k) ==
    /\ pass[k] # NoPass
    /\ pass' = [pass EXCEPT ![k] = NoPass]
    /\ busy' = FALSE
    /\ IF IsDrawn(k)
       THEN /\ boxes' = pass[k].of
            /\ timer' = (timer \/ pass[k].kind = "loop")
       ELSE UNCHANGED <<boxes, timer>>
    /\ UNCHANGED <<source, start, light, held, camera, loading, waiting, hidden, engine, jobs, locked,
                   picks, hides>>

\* The loop stops, whichever loop it was that failed.
PassFails(k) ==
    /\ pass[k] # NoPass
    /\ pass' = [pass EXCEPT ![k] = NoPass]
    /\ busy' = FALSE
    /\ camera' = [camera EXCEPT !.running = @ /\ pass[k].kind # "loop"]
    /\ UNCHANGED <<source, start, light, held, loading, waiting, timer, hidden, engine, jobs, locked,
                   boxes, picks, hides>>

-----------------------------------------------------------------------------
(* The engine *)

\* lockEngine: jobs take turns, and each waits for a pass to end.
Lock ==
    /\ jobs # <<>> /\ ~locked /\ ~busy
    /\ locked' = TRUE
    /\ UNCHANGED <<source, start, light, held, camera, loading, waiting, pass, busy, timer, hidden, engine,
                   jobs, boxes, picks, hides>>

\* startEngine is done, on the engine asked for or on WebAssembly; what was on goes on.
EngineStarted ==
    LET job == Head(jobs)
    IN /\ locked /\ job.what = "start"
       /\ locked' = FALSE
       /\ engine' \in {job.first, "wasm"}
       /\ jobs' = IF job.auto THEN Append(Tail(jobs), [UpgradeJob EXCEPT !.fresh = job.fresh]) ELSE Tail(jobs)
       /\ CASE job.then = "camera" -> StartCamera
            [] job.then = "sample" -> ShowSample
            [] OTHER -> UNCHANGED <<source, start, light, held, camera, loading, waiting, pass, timer, boxes>>
       /\ UNCHANGED <<busy, hidden, picks, hides>>

\* No engine could run the model.
EngineFails ==
    /\ locked /\ Head(jobs).what = "start"
    /\ locked' = FALSE /\ jobs' = Tail(jobs)
    /\ UNCHANGED <<source, start, light, held, camera, loading, waiting, pass, busy, timer, hidden, engine,
                   boxes, picks, hides>>

\* upgrade: WebGPU and its model, if nobody has picked an engine since and it is fast enough.
Upgraded ==
    /\ locked /\ Head(jobs).what = "upgrade"
    /\ locked' = FALSE /\ jobs' = Tail(jobs)
    /\ \/ UNCHANGED engine
       \/ Head(jobs).fresh /\ engine' = "webgpu"
    /\ UNCHANGED <<source, start, light, held, camera, loading, waiting, pass, busy, timer, hidden,
                   boxes, picks, hides>>

ScanNext ==
    \/ TapCamera \/ TapSample \/ StopCamera \/ PickEngine \/ Hide \/ Show
    \/ \E c \in Streams : Permitted(c) \/ StartFails(c) \/ Plays(c)
    \/ LoopAgain \/ Loaded \/ LoadFails \/ StillPass
    \/ \E k \in Passes : PassDone(k) \/ PassFails(k)
    \/ Lock \/ EngineStarted \/ EngineFails \/ Upgraded

ScanSpec == ScanInit /\ [][ScanNext]_scanVars

-----------------------------------------------------------------------------
(* Safety *)

\* A camera that is on is the one the page holds: no start, however many overlap and
\* whatever stopped them, leaves "one camera stream nobody held, its light on until
\* the tab closed".
NoCameraLeftOn == \A c \in Streams : light[c] => held = c /\ source = "camera"

\* The boxes on the screen are of what is on the screen, whatever pass ends late.
BoxesOfThisFrame == boxes # NoBoxes => boxes = source

\* A camera that scans goes on scanning: the loop has its timer or a pass.
ScanGoesOn ==
    camera.running => timer \/ \E k \in Passes : pass[k].kind = "loop" /\ pass[k].fresh

\* All three: what the page holds, shows and runs is its source's.
ScanFollowsSource == NoCameraLeftOn /\ BoxesOfThisFrame /\ ScanGoesOn
=============================================================================
