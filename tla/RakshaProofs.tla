---------------------------- MODULE RakshaProofs ----------------------------
(***************************************************************************)
(* Theorems about Raksha, Scanner and ScanReport, for every number of      *)
(* devices, sightings, moderators, images and drafts.  A detection passes  *)
(* through two hands, the review queue's and the map's, and what keeps the *)
(* road's record true is that whoever files it holds its row: the road's   *)
(* invariant (RoadKept) says which of the two it waits in and what the     *)
(* incident it is matched to has counted.  The scanner's says which scan   *)
(* the light and the loop belong to.                                       *)
(***************************************************************************)
EXTENDS Raksha, Scanner, ScanReport, FiniteSetTheorems, TLAPS

-----------------------------------------------------------------------------
(* A report from the scanner *)

\* A send posts what the page holds, until a new report has replaced that.
PostsWhatIsHeld ==
    /\ sending.pc # "idle" => sending.draft \in Drafts
    /\ sending.pc = "post" => pending \in {sending.draft, NoDraft}

ReportKept == PostsWhatIsHeld /\ SentMeansFiled

LEMMA ReportStep == ReportTypeOK /\ ReportKept /\ [ReportNext]_reportVars => ReportTypeOK' /\ ReportKept'
<1> SUFFICES ASSUME ReportTypeOK, ReportKept, [ReportNext]_reportVars PROVE ReportTypeOK' /\ ReportKept'
  OBVIOUS
<1> USE DEF ReportTypeOK, ReportKept, PostsWhatIsHeld, SentMeansFiled, NotSending
<1>1. CASE UNCHANGED reportVars
  BY <1>1 DEF reportVars
<1>2. ASSUME NEW d \in Drafts, OpenPanel(d) PROVE ReportTypeOK' /\ ReportKept'
  BY <1>2 DEF OpenPanel
<1>3. CASE ClosePanel
  BY <1>3 DEF ClosePanel
<1>4. CASE TapSend
  BY <1>4 DEF TapSend, Send
<1>5. CASE Shrunk
  BY <1>5 DEF Shrunk
<1>6. CASE ShrinkFails
  BY <1>6 DEF ShrinkFails
<1>7. CASE Filed
  BY <1>7 DEF Filed, Mark
<1>8. CASE Refused
  BY <1>8 DEF Refused
<1>9. CASE Unreachable
  BY <1>9 DEF Unreachable
<1>10. CASE GoesOffline
  BY <1>10 DEF GoesOffline
<1>11. CASE ComesOnline
  BY <1>11 DEF ComesOnline, Send
<1> QED BY <1>1, <1>2, <1>3, <1>4, <1>5, <1>6, <1>7, <1>8, <1>9, <1>10, <1>11 DEF ReportNext

LEMMA ReportAlwaysKept == ReportSpec => [](ReportTypeOK /\ ReportKept)
<1>1. ReportInit => ReportTypeOK /\ ReportKept
  BY DEF ReportInit, ReportTypeOK, ReportKept, PostsWhatIsHeld, SentMeansFiled, NotSending
<1> QED BY <1>1, ReportStep, PTL DEF ReportSpec

\* The drafts and the send under way have their types.
THEOREM ReportTypes == ReportSpec => []ReportTypeOK
BY ReportAlwaysKept, PTL

\* A draft that reads "Sent" is with the server, however late the answer came and
\* whatever was opened or closed meanwhile (scan.js, sendReport).
THEOREM SentIsFiled == ReportSpec => []SentMeansFiled
<1>1. ReportKept => SentMeansFiled
  BY DEF ReportKept
<1> QED BY <1>1, ReportAlwaysKept, PTL

-----------------------------------------------------------------------------
(* The scanner *)

StartRecord == [pc : {"none", "prompt", "playing"}, fresh : BOOLEAN]
PassRecord == [kind : {"none", "loop", "still"}, of : Sources, fresh : BOOLEAN]
CameraRecord == [starting : BOOLEAN, resume : BOOLEAN, running : BOOLEAN]

ScanTyped ==
    /\ start \in [Streams -> StartRecord] /\ light \in [Streams -> BOOLEAN]
    /\ camera \in CameraRecord /\ pass \in [Passes -> PassRecord]

\* One start holds the ticket, and while it asks for a camera none is on.
OneStart ==
    /\ \A c, d \in Streams : start[c].fresh /\ start[d].fresh => c = d
    /\ \A c \in Streams : start[c].fresh /\ start[c].pc = "prompt" => \A d \in Streams : ~light[d]

RunsOnCamera == camera.running => source = "camera"

LightsKept == ScanTyped /\ OneStart /\ NoCameraLeftOn /\ RunsOnCamera

\* What waits, loads or holds the ticket is about the source.
PassesOfSource ==
    /\ loading => source = "sample"
    /\ waiting => source = "sample"
    /\ \A k \in Passes : pass[k].fresh =>
         \/ pass[k].kind = "loop" /\ pass[k].of = "camera"
         \/ pass[k].kind = "still" /\ pass[k].of = "sample" /\ source = "sample"

FramesKept == PassesOfSource /\ BoxesOfThisFrame /\ ScanGoesOn

scanCore == <<source, start, light, held, camera, loading, waiting, pass, timer, boxes>>

LEMMA TicketsGo ==
    ASSUME ScanTyped
    PROVE  /\ Expired(start) \in [Streams -> StartRecord]
           /\ \A c \in Streams : Expired(start)[c].fresh = FALSE
           /\ Expired(pass) \in [Passes -> PassRecord]
           /\ \A k \in Passes : Expired(pass)[k].fresh = FALSE
<1>1. \A q \in StartRecord : [q EXCEPT !.fresh = FALSE] \in StartRecord /\ [q EXCEPT !.fresh = FALSE].fresh = FALSE
  BY DEF StartRecord
<1>2. \A q \in PassRecord : [q EXCEPT !.fresh = FALSE] \in PassRecord /\ [q EXCEPT !.fresh = FALSE].fresh = FALSE
  BY DEF PassRecord
<1>3. start \in [Streams -> StartRecord] /\ pass \in [Passes -> PassRecord]
  BY DEF ScanTyped
<1> QED BY <1>1, <1>2, <1>3 DEF Expired

\* stopAll leaves no light on, no ticket for a pass, no loop and no box.
LEMMA AllStopped ==
    ASSUME ScanTyped, NoCameraLeftOn, StopAll
    PROVE  /\ LateImage \/ ~loading
           /\ pass' \in [Passes -> PassRecord] /\ \A k \in Passes : pass'[k].fresh = FALSE
           /\ light' \in [Streams -> BOOLEAN] /\ \A c \in Streams : ~light'[c]
           /\ waiting' = FALSE /\ timer' = FALSE /\ boxes' = "none"
<1>1. light' \in [Streams -> BOOLEAN] /\ \A c \in Streams : ~light'[c]
  BY DEF StopAll, NoCameraLeftOn, ScanTyped
<1> QED BY <1>1, TicketsGo DEF StopAll, MayChoose, NoBoxes

\* After stopAll, with the camera off.
LEMMA StoppedKept ==
    ASSUME LightsKept, StopAll, start' \in [Streams -> StartRecord], camera' \in CameraRecord, ~camera'.running,
           \A c, d \in Streams : start'[c].fresh /\ start'[d].fresh => c = d
    PROVE  LightsKept'
BY AllStopped DEF LightsKept, ScanTyped, OneStart, NoCameraLeftOn, RunsOnCamera

LEMMA StoppedFrames ==
    ASSUME LightsKept, FramesKept, ~LateImage, StopAll, ~camera'.running, loading' => source' = "sample"
    PROVE  FramesKept'
BY AllStopped DEF LightsKept, FramesKept, PassesOfSource, BoxesOfThisFrame, ScanGoesOn, NoBoxes

LEMMA CameraStarts ==
    ASSUME LightsKept, StartCamera
    PROVE  /\ LightsKept'
           /\ ~LateImage /\ FramesKept => FramesKept'
<1>1. StopAll /\ camera' = [starting |-> TRUE, resume |-> FALSE, running |-> FALSE] /\ loading' = loading
  BY DEF StartCamera
<1>2. camera' \in CameraRecord /\ ~camera'.running
  BY <1>1 DEF CameraRecord
<1>3. PICK c \in Streams : start' = [Expired(start) EXCEPT ![c] = [pc |-> "prompt", fresh |-> TRUE]]
  BY DEF StartCamera
<1>4. [pc |-> "prompt", fresh |-> TRUE] \in StartRecord
  BY DEF StartRecord
<1>5. start' \in [Streams -> StartRecord]
  BY <1>3, <1>4, TicketsGo DEF LightsKept
<1>6. \A d, e \in Streams : start'[d].fresh /\ start'[e].fresh => d = e
  BY <1>3, TicketsGo DEF LightsKept
<1>7. LateImage \/ ~loading
  BY <1>1 DEF StopAll, MayChoose
<1> QED BY <1>1, <1>2, <1>5, <1>6, <1>7, StoppedKept, StoppedFrames

LEMMA SampleShows ==
    ASSUME LightsKept, ShowSample
    PROVE  /\ LightsKept'
           /\ ~LateImage /\ FramesKept => FramesKept'
<1>1. /\ StopAll /\ camera' = [camera EXCEPT !.starting = FALSE, !.running = FALSE] /\ source' = "sample"
      /\ start' = Expired(start)
  BY DEF ShowSample
<1>2. camera \in CameraRecord
  BY DEF LightsKept, ScanTyped
<1>3. camera' \in CameraRecord /\ ~camera'.running
  BY <1>1, <1>2 DEF CameraRecord
<1>4. start' \in [Streams -> StartRecord] /\ \A d, e \in Streams : start'[d].fresh /\ start'[e].fresh => d = e
  BY <1>1, TicketsGo DEF LightsKept
<1> QED BY <1>1, <1>3, <1>4, StoppedKept, StoppedFrames

ScanGoal == LightsKept' /\ (~LateImage /\ FramesKept => FramesKept')

LEMMA ScanStays ==
    ASSUME LightsKept, UNCHANGED scanCore
    PROVE  ScanGoal
BY DEF ScanGoal, scanCore, LightsKept, ScanTyped, OneStart, NoCameraLeftOn, RunsOnCamera,
       FramesKept, PassesOfSource, BoxesOfThisFrame, ScanGoesOn

\* What the person does.
LEMMA PersonSteps ==
    ASSUME LightsKept, TapCamera \/ TapSample \/ StopCamera \/ PickEngine \/ Hide \/ Show
    PROVE  ScanGoal
<1>0. camera \in CameraRecord /\ \A d, e \in Streams : Expired(start)[d].fresh /\ Expired(start)[e].fresh => d = e
  BY TicketsGo DEF LightsKept, ScanTyped
<1>1. CASE TapCamera \/ TapSample
  BY <1>1, CameraStarts, SampleShows DEF TapCamera, TapSample, ScanGoal
<1>2. CASE StopCamera
  <2>1. StopAll /\ start' = Expired(start) /\ camera' = CameraOff /\ loading' = loading
    BY <1>2 DEF StopCamera
  <2>2. camera' \in CameraRecord /\ ~camera'.running
    BY <2>1 DEF CameraRecord, CameraOff
  <2>3. LateImage \/ ~loading
    BY <2>1 DEF StopAll, MayChoose
  <2> QED BY <1>0, <2>1, <2>2, <2>3, TicketsGo, StoppedKept, StoppedFrames DEF ScanGoal, LightsKept
<1>3. CASE PickEngine
  <2>1. /\ StopAll /\ start' = Expired(start) /\ camera' = [camera EXCEPT !.starting = FALSE, !.running = FALSE]
        /\ loading' = loading
    BY <1>3 DEF PickEngine
  <2>2. camera' \in CameraRecord /\ ~camera'.running
    BY <1>0, <2>1 DEF CameraRecord
  <2>3. LateImage \/ ~loading
    BY <2>1 DEF StopAll, MayChoose
  <2> QED BY <1>0, <2>1, <2>2, <2>3, TicketsGo, StoppedKept, StoppedFrames DEF ScanGoal, LightsKept
<1>4. CASE Hide
  <2>1. \/ UNCHANGED scanCore
        \/ StopAll /\ start' = Expired(start) /\ camera' = [CameraOff EXCEPT !.resume = TRUE] /\ loading' = loading
    BY <1>4 DEF Hide, scanCore
  <2>2. CASE UNCHANGED scanCore
    BY <2>2, ScanStays
  <2>3. CASE StopAll /\ start' = Expired(start) /\ camera' = [CameraOff EXCEPT !.resume = TRUE] /\ loading' = loading
    <3>1. camera' \in CameraRecord /\ ~camera'.running
      BY <2>3 DEF CameraRecord, CameraOff
    <3>2. LateImage \/ ~loading
      BY <2>3 DEF StopAll, MayChoose
    <3> QED BY <1>0, <2>3, <3>1, <3>2, TicketsGo, StoppedKept, StoppedFrames DEF ScanGoal, LightsKept
  <2> QED BY <2>1, <2>2, <2>3
<1>5. CASE Show
  <2>1. CASE camera.resume /\ source = "camera"
    BY <1>5, <2>1, CameraStarts DEF Show, ScanGoal
  <2>2. CASE ~(camera.resume /\ source = "camera")
    <3>1. /\ timer' = (timer \/ camera.running)
          /\ UNCHANGED <<source, start, light, held, camera, loading, waiting, pass, boxes>>
      BY <1>5, <2>2 DEF Show
    <3>2. LightsKept'
      BY <3>1 DEF LightsKept, ScanTyped, OneStart, NoCameraLeftOn, RunsOnCamera
    <3>3. FramesKept => FramesKept'
      BY <3>1 DEF FramesKept, PassesOfSource, BoxesOfThisFrame, ScanGoesOn
    <3> QED BY <3>2, <3>3 DEF ScanGoal
  <2> QED BY <2>1, <2>2
<1> QED BY <1>1, <1>2, <1>3, <1>4, <1>5

\* The loop, of a camera that runs.
LEMMA LoopRuns ==
    ASSUME LightsKept, Loop, UNCHANGED <<source, loading, waiting, boxes>>
    PROVE  /\ pass' \in [Passes -> PassRecord]
           /\ FramesKept => FramesKept'
<1>1. CASE timer' = TRUE /\ pass' = pass
  BY <1>1 DEF LightsKept, ScanTyped, FramesKept, PassesOfSource, BoxesOfThisFrame, ScanGoesOn
<1>2. CASE \E k \in Passes : NewPass(k, "loop", "camera")
  <2>1. PICK k \in Passes : pass' = [pass EXCEPT ![k] = [kind |-> "loop", of |-> "camera", fresh |-> TRUE]]
    BY <1>2 DEF NewPass
  <2>2. PICK q \in PassRecord : q = [kind |-> "loop", of |-> "camera", fresh |-> TRUE]
    BY DEF PassRecord, Sources
  <2>3. q.kind = "loop" /\ q.of = "camera" /\ q.fresh
    BY <2>2
  <2>4. pass' = [pass EXCEPT ![k] = q] /\ pass \in [Passes -> PassRecord]
    BY <2>1, <2>2 DEF LightsKept, ScanTyped
  <2>5. pass' \in [Passes -> PassRecord] /\ pass'[k] = q /\ \A e \in Passes \ {k} : pass'[e] = pass[e]
    BY <2>4
  <2>6. FramesKept => FramesKept'
    BY <2>3, <2>5 DEF FramesKept, PassesOfSource, BoxesOfThisFrame, ScanGoesOn
  <2> QED BY <2>5, <2>6
<1> QED BY <1>1, <1>2 DEF Loop

\* The camera comes, or does not.
LEMMA CameraSteps ==
    ASSUME LightsKept, NEW c \in Streams, Permitted(c) \/ StartFails(c) \/ Plays(c)
    PROVE  ScanGoal
<1>0. /\ start \in [Streams -> StartRecord] /\ light \in [Streams -> BOOLEAN]
      /\ camera \in CameraRecord /\ pass \in [Passes -> PassRecord]
  BY DEF LightsKept, ScanTyped
<1>1. NoStart \in StartRecord /\ NoStart.fresh = FALSE
  BY DEF NoStart, StartRecord
<1>2. CASE Permitted(c)
  <2>0. /\ start[c].pc = "prompt"
        /\ UNCHANGED <<source, camera, loading, waiting, pass, timer, boxes>>
    BY <1>2 DEF Permitted
  <2>1. FramesKept => FramesKept'
    BY <2>0 DEF FramesKept, PassesOfSource, BoxesOfThisFrame, ScanGoesOn
  <2>2. CASE Stale(c)
    <3>1. start' = [start EXCEPT ![c] = NoStart] /\ light' = light /\ held' = held
      BY <1>2, <2>2 DEF Permitted
    <3>2. start' \in [Streams -> StartRecord] /\ start'[c] = NoStart /\ \A d \in Streams \ {c} : start'[d] = start[d]
      BY <1>0, <1>1, <3>1
    <3> QED BY <1>0, <1>1, <2>0, <2>1, <3>1, <3>2 DEF ScanGoal, LightsKept, ScanTyped, OneStart, NoCameraLeftOn, RunsOnCamera
  <2>3. CASE ~Stale(c)
    <3>1. /\ start' = [start EXCEPT ![c].pc = "playing"] /\ light' = [light EXCEPT ![c] = TRUE] /\ held' = c
          /\ start[c].fresh /\ source = "camera"
      BY <1>2, <2>3 DEF Permitted, Stale
    <3>2. PICK q \in StartRecord : q = [start[c] EXCEPT !.pc = "playing"]
      BY <1>0 DEF StartRecord
    <3>3. q.pc = "playing"
      BY <1>0, <3>2 DEF StartRecord
    <3>4. start' = [start EXCEPT ![c] = q]
      BY <1>0, <3>1, <3>2
    <3>5. start' \in [Streams -> StartRecord] /\ start'[c] = q /\ \A d \in Streams \ {c} : start'[d] = start[d]
      BY <1>0, <3>4
    <3>6. light' \in [Streams -> BOOLEAN] /\ \A d \in Streams \ {c} : ~light'[d]
      BY <1>0, <2>0, <3>1 DEF LightsKept, OneStart
    <3>7. \A d \in Streams \ {c} : ~start[d].fresh
      BY <3>1 DEF LightsKept, OneStart
    <3> QED BY <1>0, <2>0, <2>1, <3>1, <3>3, <3>5, <3>6, <3>7 DEF ScanGoal, LightsKept, ScanTyped, OneStart, NoCameraLeftOn, RunsOnCamera
  <2> QED BY <2>2, <2>3
<1>3. CASE StartFails(c)
  <2>1. /\ start' = [start EXCEPT ![c] = NoStart]
        /\ camera' = [camera EXCEPT !.starting = camera.starting /\ Stale(c)]
        /\ UNCHANGED <<source, light, held, loading, waiting, pass, timer, boxes>>
    BY <1>3 DEF StartFails
  <2>2. Stale(c) \in BOOLEAN
    BY <1>0 DEF Stale, StartRecord
  <2>3. camera' \in CameraRecord /\ camera'.running = camera.running
    BY <1>0, <2>1, <2>2 DEF CameraRecord
  <2>4. start' \in [Streams -> StartRecord] /\ start'[c] = NoStart /\ \A d \in Streams \ {c} : start'[d] = start[d]
    BY <1>0, <1>1, <2>1
  <2>5. LightsKept'
    BY <1>0, <1>1, <2>1, <2>3, <2>4 DEF LightsKept, ScanTyped, OneStart, NoCameraLeftOn, RunsOnCamera
  <2>6. FramesKept => FramesKept'
    BY <2>1, <2>3 DEF FramesKept, PassesOfSource, BoxesOfThisFrame, ScanGoesOn
  <2> QED BY <2>5, <2>6 DEF ScanGoal
<1>4. CASE Plays(c)
  <2>1. start' = [start EXCEPT ![c] = NoStart] /\ UNCHANGED <<source, light, held, loading, waiting, boxes>>
    BY <1>4 DEF Plays
  <2>2. start' \in [Streams -> StartRecord] /\ start'[c] = NoStart /\ \A d \in Streams \ {c} : start'[d] = start[d]
    BY <1>0, <1>1, <2>1
  <2>3. CASE Stale(c)
    <3>1. UNCHANGED <<camera, pass, timer>>
      BY <1>4, <2>3 DEF Plays
    <3>2. LightsKept'
      BY <1>0, <1>1, <2>1, <2>2, <3>1 DEF LightsKept, ScanTyped, OneStart, NoCameraLeftOn, RunsOnCamera
    <3>3. FramesKept => FramesKept'
      BY <2>1, <3>1 DEF FramesKept, PassesOfSource, BoxesOfThisFrame, ScanGoesOn
    <3> QED BY <3>2, <3>3 DEF ScanGoal
  <2>4. CASE ~Stale(c)
    <3>1. camera' = [camera EXCEPT !.starting = FALSE, !.running = TRUE] /\ Loop /\ source = "camera"
      BY <1>4, <2>4 DEF Plays, Stale
    <3>2. camera' \in CameraRecord
      BY <1>0, <3>1 DEF CameraRecord
    <3>3. pass' \in [Passes -> PassRecord] /\ (FramesKept => FramesKept')
      BY <2>1, <3>1, LoopRuns
    <3>4. LightsKept'
      BY <1>0, <1>1, <2>1, <2>2, <3>1, <3>2, <3>3 DEF LightsKept, ScanTyped, OneStart, NoCameraLeftOn, RunsOnCamera
    <3> QED BY <3>3, <3>4 DEF ScanGoal
  <2> QED BY <2>3, <2>4
<1> QED BY <1>2, <1>3, <1>4

\* The loop and the image.
LEMMA FrameSteps ==
    ASSUME LightsKept, LoopAgain \/ Loaded \/ LoadFails \/ StillPass
    PROVE  ScanGoal
<1>0. /\ start \in [Streams -> StartRecord] /\ light \in [Streams -> BOOLEAN]
      /\ camera \in CameraRecord /\ pass \in [Passes -> PassRecord]
  BY DEF LightsKept, ScanTyped
<1>1. CASE LoopAgain
  <2>1. Loop /\ UNCHANGED <<source, start, light, held, camera, loading, waiting, boxes>>
    BY <1>1 DEF LoopAgain
  <2>2. pass' \in [Passes -> PassRecord] /\ (FramesKept => FramesKept')
    BY <2>1, LoopRuns
  <2>3. LightsKept'
    BY <2>1, <2>2 DEF LightsKept, ScanTyped, OneStart, NoCameraLeftOn, RunsOnCamera
  <2> QED BY <2>2, <2>3 DEF ScanGoal
<1>2. CASE Loaded
  <2>1. /\ loading /\ loading' = FALSE /\ waiting' = TRUE /\ start' = Expired(start) /\ pass' = Expired(pass)
        /\ UNCHANGED <<source, light, held, camera, timer, boxes>>
    BY <1>2 DEF Loaded
  <2>2. LightsKept'
    BY <2>1, TicketsGo DEF LightsKept, ScanTyped, OneStart, NoCameraLeftOn, RunsOnCamera
  <2>3. FramesKept => FramesKept'
    BY <2>1, TicketsGo DEF LightsKept, RunsOnCamera, FramesKept, PassesOfSource, BoxesOfThisFrame, ScanGoesOn
  <2> QED BY <2>2, <2>3 DEF ScanGoal
<1>3. CASE LoadFails
  <2>1. loading' = FALSE /\ UNCHANGED <<source, start, light, held, camera, waiting, pass, timer, boxes>>
    BY <1>3 DEF LoadFails
  <2>2. LightsKept'
    BY <2>1 DEF LightsKept, ScanTyped, OneStart, NoCameraLeftOn, RunsOnCamera
  <2>3. FramesKept => FramesKept'
    BY <2>1 DEF FramesKept, PassesOfSource, BoxesOfThisFrame, ScanGoesOn
  <2> QED BY <2>2, <2>3 DEF ScanGoal
<1>4. CASE StillPass
  <2>1. waiting /\ waiting' = FALSE /\ UNCHANGED <<source, start, light, held, camera, loading, timer, boxes>>
    BY <1>4 DEF StillPass
  <2>2. PICK k \in Passes : pass[k] = NoPass /\ pass' = [pass EXCEPT ![k] = [kind |-> "still", of |-> "sample", fresh |-> TRUE]]
    BY <1>4 DEF StillPass, NewPass
  <2>3. PICK q \in PassRecord : q = [kind |-> "still", of |-> "sample", fresh |-> TRUE]
    BY DEF PassRecord, Sources
  <2>4. q.kind = "still" /\ q.of = "sample" /\ q.fresh
    BY <2>3
  <2>5. pass' \in [Passes -> PassRecord] /\ pass'[k] = q /\ \A e \in Passes \ {k} : pass'[e] = pass[e]
    BY <1>0, <2>2, <2>3
  <2>6. pass[k].fresh = FALSE
    BY <2>2 DEF NoPass
  <2>7. LightsKept'
    BY <2>1, <2>5 DEF LightsKept, ScanTyped, OneStart, NoCameraLeftOn, RunsOnCamera
  <2>8. FramesKept => FramesKept'
    BY <2>1, <2>4, <2>5, <2>6 DEF FramesKept, PassesOfSource, BoxesOfThisFrame, ScanGoesOn
  <2> QED BY <2>7, <2>8 DEF ScanGoal
<1> QED BY <1>1, <1>2, <1>3, <1>4

\* A pass ends, or fails.
LEMMA PassSteps ==
    ASSUME LightsKept, NEW k \in Passes, PassDone(k) \/ PassFails(k)
    PROVE  ScanGoal
<1>0. camera \in CameraRecord /\ pass \in [Passes -> PassRecord] /\ pass[k] \in PassRecord
  BY DEF LightsKept, ScanTyped
<1>1. NoPass \in PassRecord /\ NoPass.fresh = FALSE
  BY DEF NoPass, PassRecord, Sources
<1>2. pass' = [pass EXCEPT ![k] = NoPass] /\ UNCHANGED <<source, start, light, held, loading, waiting>>
  BY DEF PassDone, PassFails
<1>3. pass' \in [Passes -> PassRecord] /\ pass'[k] = NoPass /\ \A e \in Passes \ {k} : pass'[e] = pass[e]
  BY <1>0, <1>1, <1>2
<1>4. CASE PassDone(k)
  <2>1. camera' = camera
    BY <1>4 DEF PassDone
  <2>2. LightsKept'
    BY <1>2, <1>3, <2>1 DEF LightsKept, ScanTyped, OneStart, NoCameraLeftOn, RunsOnCamera
  <2>3. ASSUME FramesKept PROVE FramesKept'
    <3>1. PassesOfSource'
      BY <1>1, <1>2, <1>3, <2>3 DEF FramesKept, PassesOfSource
    <3>2. CASE IsDrawn(k)
      <4>1. boxes' = pass[k].of /\ timer' = (timer \/ pass[k].kind = "loop") /\ pass[k].fresh
        BY <1>4, <3>2 DEF PassDone, IsDrawn
      <4>2. BoxesOfThisFrame'
        BY <1>2, <2>3, <3>2, <4>1 DEF FramesKept, PassesOfSource, BoxesOfThisFrame, IsDrawn, LightsKept, RunsOnCamera
      <4>3. ScanGoesOn'
        BY <1>3, <2>1, <2>3, <4>1 DEF FramesKept, ScanGoesOn
      <4> QED BY <3>1, <4>2, <4>3 DEF FramesKept
    <3>3. CASE ~IsDrawn(k)
      <4>1. boxes' = boxes /\ timer' = timer
        BY <1>4, <3>3 DEF PassDone
      <4>2. BoxesOfThisFrame'
        BY <1>2, <2>3, <4>1 DEF FramesKept, BoxesOfThisFrame
      <4>3. ScanGoesOn'
        BY <1>0, <1>3, <2>1, <2>3, <3>3, <4>1 DEF FramesKept, ScanGoesOn, IsDrawn
      <4> QED BY <3>1, <4>2, <4>3 DEF FramesKept
    <3> QED BY <3>2, <3>3
  <2> QED BY <2>2, <2>3 DEF ScanGoal
<1>5. CASE PassFails(k)
  <2>1. /\ camera' = [camera EXCEPT !.running = camera.running /\ pass[k].kind # "loop"]
        /\ UNCHANGED <<timer, boxes>>
    BY <1>5 DEF PassFails
  <2>2. camera' \in CameraRecord /\ camera'.running = (camera.running /\ pass[k].kind # "loop")
    BY <1>0, <2>1 DEF CameraRecord
  <2>3. LightsKept'
    BY <1>2, <1>3, <2>2 DEF LightsKept, ScanTyped, OneStart, NoCameraLeftOn, RunsOnCamera
  <2>4. FramesKept => FramesKept'
    BY <1>1, <1>2, <1>3, <2>1, <2>2 DEF FramesKept, PassesOfSource, BoxesOfThisFrame, ScanGoesOn
  <2> QED BY <2>3, <2>4 DEF ScanGoal
<1> QED BY <1>4, <1>5

LEMMA EngineSteps ==
    ASSUME LightsKept, Lock \/ EngineStarted \/ EngineFails \/ Upgraded
    PROVE  ScanGoal
<1>1. UNCHANGED scanCore \/ StartCamera \/ ShowSample
  BY DEF Lock, EngineStarted, EngineFails, Upgraded, scanCore
<1> QED BY <1>1, ScanStays, CameraStarts, SampleShows DEF ScanGoal

LEMMA ScanStep == LightsKept /\ [ScanNext]_scanVars => ScanGoal
<1> SUFFICES ASSUME LightsKept, [ScanNext]_scanVars PROVE ScanGoal
  OBVIOUS
<1>1. CASE UNCHANGED scanVars
  BY <1>1, ScanStays DEF scanVars, scanCore
<1>2. CASE ScanNext
  BY <1>2, PersonSteps, CameraSteps, FrameSteps, PassSteps, EngineSteps DEF ScanNext
<1> QED BY <1>1, <1>2

LEMMA ScanInitKept == ScanInit => LightsKept /\ FramesKept
<1> SUFFICES ASSUME ScanInit PROVE LightsKept /\ FramesKept
  OBVIOUS
<1>1. /\ source = "none" /\ held = NoStream /\ start = [c \in Streams |-> NoStart] /\ light = [c \in Streams |-> FALSE]
      /\ camera = CameraOff /\ loading = FALSE /\ waiting = FALSE /\ pass = [k \in Passes |-> NoPass] /\ boxes = "none"
  BY DEF ScanInit, NoBoxes
<1>2. /\ NoStart \in StartRecord /\ NoStart.fresh = FALSE /\ NoPass \in PassRecord /\ NoPass.fresh = FALSE
      /\ CameraOff \in CameraRecord /\ CameraOff.running = FALSE
  BY DEF NoStart, StartRecord, NoPass, PassRecord, Sources, CameraOff, CameraRecord
<1>3. LightsKept
  BY <1>1, <1>2 DEF LightsKept, ScanTyped, OneStart, NoCameraLeftOn, RunsOnCamera
<1>4. FramesKept
  BY <1>1, <1>2 DEF FramesKept, PassesOfSource, BoxesOfThisFrame, ScanGoesOn, NoBoxes
<1> QED BY <1>3, <1>4

\* No start, however many overlap and whatever stopped them, leaves a camera on that
\* the page does not hold (scan.js, startCamera's ticket).
THEOREM NoLightLeftOn == ScanSpec => []NoCameraLeftOn
<1>1. LightsKept /\ [ScanNext]_scanVars => LightsKept'
  BY ScanStep DEF ScanGoal
<1>2. ScanSpec => []LightsKept
  BY <1>1, ScanInitKept, PTL DEF ScanSpec
<1>3. LightsKept => NoCameraLeftOn
  BY DEF LightsKept
<1> QED BY <1>2, <1>3, PTL

\* What the page holds, shows and runs is its source's, whatever pass or start ends
\* late, unless another source is chosen while an image loads (scan.js, S.gen).
THEOREM ScanAlwaysFollows == ~LateImage => (ScanSpec => []ScanFollowsSource)
<1> SUFFICES ASSUME ~LateImage PROVE ScanSpec => []ScanFollowsSource
  OBVIOUS
<1>1. LightsKept /\ FramesKept /\ [ScanNext]_scanVars => (LightsKept /\ FramesKept)'
  BY ScanStep DEF ScanGoal
<1>2. ScanSpec => [](LightsKept /\ FramesKept)
  BY <1>1, ScanInitKept, PTL DEF ScanSpec
<1>3. LightsKept /\ FramesKept => ScanFollowsSource
  BY DEF LightsKept, FramesKept, ScanFollowsSource
<1> QED BY <1>2, <1>3, PTL

-----------------------------------------------------------------------------
(* The road's record *)

BatchRecord == [pc : {"idle", "open", "inserted", "looked"}, device : Devices \cup {NoDevice},
                todo : SUBSET Sightings, item : Sightings \cup {NoSighting},
                target : Incidents \cup {NoIncident}, budget : 0 .. Budget]
ReviewRecord == [pc : {"idle", "rejecting", "dismissing"}, det : Sightings \cup {NoSighting},
                 inc : Incidents \cup {NoIncident}, linked : SUBSET Incidents]

\* An item in hand: no report, and nobody else's; its row is not there yet.
BatchWhole(q) ==
    /\ q.todo \cap Reports = {} /\ q.item \notin Reports
    /\ q.item # NoSighting => q.pc \in {"inserted", "looked"}
    /\ q.pc \in {"inserted", "looked"} => q.item # NoSighting
    /\ q.target # NoIncident => q.pc = "looked"
    /\ q.pc # "idle" => q.device \in Devices

ItemsHeld ==
    /\ \A r \in Batches : BatchWhole(batch[r])
    /\ \A r \in Batches : batch[r].item # NoSighting => status[batch[r].item] = "NONE"
    /\ \A r, s \in Batches : batch[r].item = batch[s].item /\ batch[r].item # NoSighting => r = s

\* A sighting's one signal is of an incident that is there.
SignalsOnce ==
    /\ \A i, j \in Incidents, x \in Sightings : <<i, x>> \in signals /\ <<j, x>> \in signals => i = j
    /\ \A i \in Incidents, x \in Sightings : <<i, x>> \in signals => status[x] # "NONE" /\ incident[i] # "NONE"

\* What an officer has locked stays as it was when it was locked.
OfficersHold ==
    /\ \A o \in Officers : officer[o].pc = "rejecting" =>
         officer[o].det \in Sightings /\ officer[o].inc = NoIncident /\ status[officer[o].det] = "DETECTED"
    /\ \A o \in Officers : officer[o].pc = "dismissing" =>
         officer[o].inc \in Incidents /\ officer[o].det = NoSighting
           /\ incident[officer[o].inc] = "AWAITING_CONFIRMATION"
    /\ \A o \in Officers : officer[o].pc = "idle" => officer[o].det = NoSighting /\ officer[o].inc = NoIncident
    /\ \A o, p \in Officers : officer[o].det = officer[p].det /\ officer[o].det # NoSighting => o = p
    /\ \A o, p \in Officers : officer[o].inc = officer[p].inc /\ officer[o].inc # NoIncident => o = p

RoadKept == RakshaTypeOK /\ ItemsHeld /\ SignalsOnce /\ OfficersHold

LEMMA NoneAre ==
    /\ NoBatch \in BatchRecord /\ BatchWhole(NoBatch)
    /\ NoBatch.item = NoSighting /\ NoBatch.device = NoDevice /\ NoBatch.pc = "idle" /\ NoBatch.target = NoIncident
    /\ NoReview \in ReviewRecord /\ NoReview.pc = "idle" /\ NoReview.det = NoSighting /\ NoReview.inc = NoIncident
    /\ NoSighting \notin Sightings /\ NoSighting \notin Reports /\ NoIncident \notin Incidents /\ NoDevice \notin Devices
BY RakshaAssumption DEF NoBatch, BatchRecord, BatchWhole, NoReview, ReviewRecord

LEMMA RoadTyped ==
    ASSUME RakshaTypeOK
    PROVE  /\ batch \in [Batches -> BatchRecord] /\ officer \in [Officers -> ReviewRecord]
           /\ status \in [Sightings -> DetectionStatus \cup {"NONE"}]
           /\ device \in [Sightings -> Devices \cup {NoDevice}]
           /\ incident \in [Incidents -> IncidentStatus \cup {"NONE"}]
           /\ DOMAIN spot = Incidents
           /\ fresh \subseteq Incidents /\ signals \subseteq Incidents \X Sightings
BY DEF RakshaTypeOK, BatchRecord, ReviewRecord

LEMMA RoadTypedNext ==
    ASSUME batch' \in [Batches -> BatchRecord], officer' \in [Officers -> ReviewRecord],
           status' \in [Sightings -> DetectionStatus \cup {"NONE"}],
           device' \in [Sightings -> Devices \cup {NoDevice}],
           incident' \in [Incidents -> IncidentStatus \cup {"NONE"}],
           DOMAIN spot' = Incidents,
           fresh' \subseteq Incidents, signals' \subseteq Incidents \X Sightings
    PROVE  RakshaTypeOK'
BY DEF RakshaTypeOK, BatchRecord, ReviewRecord

\* A batch goes on, and the record is as it was.
LEMMA BatchGoesOn ==
    ASSUME RoadKept, NEW r \in Batches, NEW q \in BatchRecord, batch' = [batch EXCEPT ![r] = q],
           UNCHANGED <<db, officer>>, BatchWhole(q),
           q.item = NoSighting \/ q.item = batch[r].item \/ KeyFree(q.item)
    PROVE  RoadKept'
<1>1. UNCHANGED <<status, device, incident, spot, fresh, signals, officer>>
  BY DEF db
<1>2. batch' \in [Batches -> BatchRecord] /\ batch'[r] = q /\ \A s \in Batches \ {r} : batch'[s] = batch[s]
  BY RoadTyped DEF RoadKept
<1>3. RakshaTypeOK'
  BY <1>1, <1>2, RoadTyped, RoadTypedNext DEF RoadKept
<1>4. ItemsHeld'
  BY <1>1, <1>2 DEF RoadKept, ItemsHeld, KeyFree, BatchWhole
<1>5. SignalsOnce' /\ OfficersHold'
  BY <1>1 DEF RoadKept, SignalsOnce, OfficersHold
<1> QED BY <1>3, <1>4, <1>5 DEF RoadKept

\* How a batch goes on: it takes a free item, or comes with a device of its own, or
\* has looked.
BatchMove(r, q) ==
    /\ batch' = [batch EXCEPT ![r] = q] /\ BatchWhole(q) /\ UNCHANGED <<db, officer>>
    /\ q.item = NoSighting \/ q.item = batch[r].item \/ KeyFree(q.item)
    /\ q.device \in {batch[r].device, NoDevice} \/ Overlap \/ \A s \in Batches : batch[s].device # q.device
    /\ q.target \in Incidents =>
         \/ incident[q.target] # "NONE"
         \/ SameHazard(q.device, Spot[q.item]) = {}
         \/ q.target = batch[r].target /\ q.item = batch[r].item /\ q.device = batch[r].device

LEMMA BatchEffect ==
    ASSUME RoadKept, NEW r \in Batches,
           \/ \E dv \in Devices, items \in SUBSET (Sightings \ Reports) : items # {} /\ Receive(r, dv, items)
           \/ \E x \in Sightings : ItemInsert(r, x) \/ ItemDuplicate(r, x)
           \/ ItemLook(r) \/ BatchAnswered(r) \/ BatchFails(r)
    PROVE  \E q \in BatchRecord : BatchMove(r, q)
<1>0. batch \in [Batches -> BatchRecord] /\ batch[r] \in BatchRecord /\ BatchWhole(batch[r]) /\ Budget \in Nat
  BY RoadTyped, RakshaAssumption DEF RoadKept, ItemsHeld
<1>1. ASSUME NEW dv \in Devices, NEW items \in SUBSET (Sightings \ Reports), Receive(r, dv, items)
      PROVE  \E q \in BatchRecord : BatchMove(r, q)
  <2>0. Budget \in 0 .. Budget /\ items \in SUBSET Sightings /\ NoBatch \in BatchRecord
    BY <1>0, NoneAre
  <2>1. PICK q \in BatchRecord :
          q = [NoBatch EXCEPT !.pc = "open", !.device = dv, !.todo = items, !.budget = Budget]
    BY <2>0 DEF BatchRecord
  <2>2. q.pc = "open" /\ q.device = dv /\ q.todo = items /\ q.item = NoSighting /\ q.target = NoIncident
    BY <2>1 DEF NoBatch
  <2>3. BatchWhole(q)
    BY <2>2, NoneAre DEF BatchWhole
  <2> QED BY <1>1, <2>1, <2>2, <2>3, NoneAre DEF Receive, BatchMove
<1>2. ASSUME NEW x \in Sightings, ItemInsert(r, x) PROVE \E q \in BatchRecord : BatchMove(r, q)
  <2>1. PICK q \in BatchRecord : q = [batch[r] EXCEPT !.pc = "inserted", !.item = x]
    BY <1>0 DEF BatchRecord
  <2>2. q.pc = "inserted" /\ q.item = x /\ q.device = batch[r].device /\ q.todo = batch[r].todo /\ q.target = batch[r].target
    BY <1>0, <2>1 DEF BatchRecord
  <2>3. batch[r].pc = "open" /\ x \in batch[r].todo /\ KeyFree(x) /\ batch' = [batch EXCEPT ![r] = q] /\ UNCHANGED <<db, officer>>
    BY <1>0, <1>2, <2>1 DEF ItemInsert
  <2>4. BatchWhole(q)
    BY <1>0, <2>2, <2>3, NoneAre DEF BatchWhole
  <2> QED BY <1>0, <2>2, <2>3, <2>4, NoneAre DEF BatchMove, BatchWhole
<1>3. ASSUME NEW x \in Sightings, ItemDuplicate(r, x) PROVE \E q \in BatchRecord : BatchMove(r, q)
  <2>1. PICK q \in BatchRecord : q = [batch[r] EXCEPT !.todo = batch[r].todo \ {x}]
    BY <1>0 DEF BatchRecord
  <2>2. q.pc = batch[r].pc /\ q.item = batch[r].item /\ q.device = batch[r].device /\ q.todo = batch[r].todo \ {x} /\ q.target = batch[r].target
    BY <1>0, <2>1 DEF BatchRecord
  <2>3. batch' = [batch EXCEPT ![r] = q] /\ UNCHANGED <<db, officer>>
    BY <1>0, <1>3, <2>1 DEF ItemDuplicate
  <2>4. BatchWhole(q)
    BY <1>0, <2>2 DEF BatchWhole
  <2> QED BY <1>0, <2>2, <2>3, <2>4, NoneAre DEF BatchMove, BatchWhole
<1>4. CASE ItemLook(r)
  <2>1. PICK i \in Incidents \cup {NoIncident}, b \in {batch[r].budget, batch[r].budget - 1} :
          /\ batch' = [batch EXCEPT ![r] = [batch[r] EXCEPT !.pc = "looked", !.target = i, !.budget = b]]
          /\ b \in 0 .. Budget
          /\ i \in Incidents => incident[i] # "NONE" \/ SameHazard(batch[r].device, Spot[batch[r].item]) = {}
    <3>1. ASSUME NEW i \in SameHazard(batch[r].device, Spot[batch[r].item]),
                 batch' = [batch EXCEPT ![r].pc = "looked", ![r].target = i]
          PROVE  batch' = [batch EXCEPT ![r] = [batch[r] EXCEPT !.pc = "looked", !.target = i, !.budget = batch[r].budget]]
      BY <1>0, <3>1 DEF BatchRecord
    <3>2. ASSUME NEW i \in Incidents, MayOpen(r),
                 batch' = [batch EXCEPT ![r].pc = "looked", ![r].target = i, ![r].budget = @ - 1]
          PROVE  /\ batch' = [batch EXCEPT ![r] = [batch[r] EXCEPT !.pc = "looked", !.target = i, !.budget = batch[r].budget - 1]]
                 /\ batch[r].budget - 1 \in 0 .. Budget
      BY <1>0, <3>2 DEF BatchRecord, MayOpen
    <3>3. ASSUME batch' = [batch EXCEPT ![r].pc = "looked"]
          PROVE  batch' = [batch EXCEPT ![r] = [batch[r] EXCEPT !.pc = "looked", !.target = batch[r].target, !.budget = batch[r].budget]]
      BY <1>0, <3>3 DEF BatchRecord
    <3>4. batch[r].target \in Incidents \cup {NoIncident} /\ batch[r].budget \in 0 .. Budget
      BY <1>0 DEF BatchRecord
    <3>5. batch[r].pc = "inserted" /\ batch[r].target = NoIncident
      BY <1>0, <1>4 DEF ItemLook, BatchWhole
    <3>6. \A i \in SameHazard(batch[r].device, Spot[batch[r].item]) : i \in Incidents /\ incident[i] # "NONE"
      BY DEF SameHazard, Counts
    <3> QED BY <1>4, <3>1, <3>2, <3>3, <3>4, <3>5, <3>6, NoneAre DEF ItemLook
  <2>2. PICK q \in BatchRecord : q = [batch[r] EXCEPT !.pc = "looked", !.target = i, !.budget = b]
    BY <1>0, <2>1 DEF BatchRecord
  <2>3. q.target = i /\ q.pc = "looked" /\ q.item = batch[r].item /\ q.device = batch[r].device /\ q.todo = batch[r].todo
    BY <1>0, <2>2 DEF BatchRecord
  <2>4. batch' = [batch EXCEPT ![r] = q] /\ UNCHANGED <<db, officer>> /\ batch[r].pc = "inserted"
    BY <1>4, <2>1, <2>2 DEF ItemLook
  <2>5. BatchWhole(q)
    BY <1>0, <2>3, <2>4 DEF BatchWhole
  <2> QED BY <2>1, <2>2, <2>3, <2>4, <2>5 DEF BatchMove
<1>5. CASE BatchAnswered(r) \/ BatchFails(r)
  <2>1. BatchMove(r, NoBatch)
    BY <1>5, NoneAre DEF BatchAnswered, BatchFails, BatchMove
  <2> QED BY <2>1, NoneAre
<1> QED BY <1>1, <1>2, <1>3, <1>4, <1>5

LEMMA BatchSteps ==
    ASSUME RoadKept, NEW r \in Batches,
           \/ \E dv \in Devices, items \in SUBSET (Sightings \ Reports) : items # {} /\ Receive(r, dv, items)
           \/ \E x \in Sightings : ItemInsert(r, x) \/ ItemDuplicate(r, x)
           \/ ItemLook(r) \/ BatchAnswered(r) \/ BatchFails(r)
    PROVE  RoadKept' /\ UNCHANGED <<db, officer>>
BY BatchEffect, BatchGoesOn DEF BatchMove

\* ItemCommit: the sighting, and the incident that it raises or corroborates.
LEMMA CommitEffect ==
    ASSUME RoadKept, NEW r \in Batches, ItemCommit(r)
    PROVE  \E x \in Sightings, i \in Incidents \cup {NoIncident} :
             /\ x = batch[r].item /\ i = batch[r].target
             /\ status[x] = "NONE" /\ x \notin Reports
             /\ status' = [status EXCEPT ![x] = "DETECTED"] /\ device' = [device EXCEPT ![x] = batch[r].device]
             /\ batch[r].device \in Devices
             /\ \/ /\ i \in Incidents /\ incident[i] = "NONE"
                   /\ incident' = [incident EXCEPT ![i] = "AWAITING_CONFIRMATION"]
                   /\ spot' = [spot EXCEPT ![i] = Spot[x]] /\ fresh' = fresh \cup {i}
                \/ /\ i \notin Incidents \/ incident[i] # "NONE"
                   /\ UNCHANGED <<incident, spot, fresh>>
             /\ signals' = IF i = NoIncident THEN signals ELSE signals \cup {<<i, x>>}
             /\ officer' = officer
             /\ batch' \in [Batches -> BatchRecord]
             /\ \A s \in Batches \ {r} : batch'[s] = batch[s]
             /\ batch'[r].pc = "open" /\ batch'[r].item = NoSighting /\ batch'[r].target = NoIncident
             /\ batch'[r].device = batch[r].device /\ BatchWhole(batch'[r])
<1>0. batch \in [Batches -> BatchRecord] /\ batch[r] \in BatchRecord /\ BatchWhole(batch[r])
  BY RoadTyped DEF RoadKept, ItemsHeld
<1>1. PICK x \in Sightings : x = batch[r].item
  BY <1>0 DEF ItemCommit, BatchWhole, BatchRecord
<1>2. PICK i \in Incidents \cup {NoIncident} : i = batch[r].target
  BY <1>0 DEF BatchRecord
<1>3. status[x] = "NONE" /\ x \notin Reports /\ batch[r].device \in Devices /\ batch[r].pc \in {"inserted", "looked"}
  BY <1>0, <1>1, NoneAre DEF RoadKept, ItemsHeld, BatchWhole, ItemCommit
<1>4. PICK q \in BatchRecord : q = [batch[r] EXCEPT !.pc = "open", !.todo = batch[r].todo \ {x},
                                                     !.item = NoSighting, !.target = NoIncident]
  BY <1>0 DEF BatchRecord
<1>5. q.pc = "open" /\ q.item = NoSighting /\ q.target = NoIncident /\ q.device = batch[r].device /\ q.todo = batch[r].todo \ {x}
  BY <1>0, <1>4 DEF BatchRecord
<1>6. batch' = [batch EXCEPT ![r] = q]
  <2>1. batch' = [batch EXCEPT ![r].pc = "open", ![r].todo = batch[r].todo \ {x},
                               ![r].item = NoSighting, ![r].target = NoIncident]
    BY <1>0, <1>1 DEF ItemCommit
  <2> QED BY <1>0, <1>4, <2>1 DEF BatchRecord
<1>7. batch'[r] = q /\ BatchWhole(q) /\ batch' \in [Batches -> BatchRecord] /\ \A s \in Batches \ {r} : batch'[s] = batch[s]
  BY <1>0, <1>3, <1>5, <1>6, NoneAre DEF BatchWhole
<1>8. /\ status' = [status EXCEPT ![x] = "DETECTED"] /\ device' = [device EXCEPT ![x] = batch[r].device]
      /\ signals' = IF i = NoIncident THEN signals ELSE signals \cup {<<i, x>>}
      /\ officer' = officer
  BY <1>1, <1>2 DEF ItemCommit
<1>9. \/ /\ i \in Incidents /\ incident[i] = "NONE"
         /\ incident' = [incident EXCEPT ![i] = "AWAITING_CONFIRMATION"]
         /\ spot' = [spot EXCEPT ![i] = Spot[x]] /\ fresh' = fresh \cup {i}
      \/ /\ i \notin Incidents \/ incident[i] # "NONE"
         /\ UNCHANGED <<incident, spot, fresh>>
  BY <1>1, <1>2, NoneAre DEF ItemCommit
<1> QED BY <1>1, <1>2, <1>3, <1>5, <1>7, <1>8, <1>9

LEMMA CommitStep ==
    ASSUME RoadKept, NEW r \in Batches, ItemCommit(r)
    PROVE  RoadKept'
<1>1. PICK x \in Sightings, i \in Incidents \cup {NoIncident} :
             /\ x = batch[r].item /\ i = batch[r].target
             /\ status[x] = "NONE" /\ x \notin Reports
             /\ status' = [status EXCEPT ![x] = "DETECTED"] /\ device' = [device EXCEPT ![x] = batch[r].device]
             /\ batch[r].device \in Devices
             /\ \/ /\ i \in Incidents /\ incident[i] = "NONE"
                   /\ incident' = [incident EXCEPT ![i] = "AWAITING_CONFIRMATION"]
                   /\ spot' = [spot EXCEPT ![i] = Spot[x]] /\ fresh' = fresh \cup {i}
                \/ /\ i \notin Incidents \/ incident[i] # "NONE"
                   /\ UNCHANGED <<incident, spot, fresh>>
             /\ signals' = IF i = NoIncident THEN signals ELSE signals \cup {<<i, x>>}
             /\ officer' = officer
             /\ batch' \in [Batches -> BatchRecord]
             /\ \A s \in Batches \ {r} : batch'[s] = batch[s]
             /\ batch'[r].pc = "open" /\ batch'[r].item = NoSighting /\ batch'[r].target = NoIncident
             /\ batch'[r].device = batch[r].device /\ BatchWhole(batch'[r])
  BY CommitEffect
<1>2. /\ status \in [Sightings -> DetectionStatus \cup {"NONE"}] /\ device \in [Sightings -> Devices \cup {NoDevice}]
      /\ incident \in [Incidents -> IncidentStatus \cup {"NONE"}] /\ DOMAIN spot = Incidents
      /\ fresh \subseteq Incidents /\ signals \subseteq Incidents \X Sightings
      /\ officer \in [Officers -> ReviewRecord]
  BY RoadTyped DEF RoadKept
<1>3. status' \in [Sightings -> DetectionStatus \cup {"NONE"}] /\ status'[x] = "DETECTED" /\ \A y \in Sightings \ {x} : status'[y] = status[y]
  BY <1>1, <1>2 DEF DetectionStatus
<1>4. /\ incident' \in [Incidents -> IncidentStatus \cup {"NONE"}]
      /\ \A j \in Incidents : incident[j] # "NONE" => incident'[j] = incident[j]
      /\ i \in Incidents => incident'[i] # "NONE"
      /\ DOMAIN spot' = Incidents /\ fresh' \subseteq Incidents
  <2>1. CASE i \in Incidents /\ incident[i] = "NONE"
    BY <1>1, <1>2, <2>1 DEF IncidentStatus
  <2>2. CASE ~(i \in Incidents /\ incident[i] = "NONE")
    BY <1>1, <1>2, <2>2
  <2> QED BY <2>1, <2>2
<1>5. signals' \subseteq signals \cup {<<i, x>>} /\ signals' \subseteq Incidents \X Sightings
  BY <1>1, <1>2
<1>6. RakshaTypeOK'
  <2>1. device' \in [Sightings -> Devices \cup {NoDevice}] /\ officer' \in [Officers -> ReviewRecord]
    BY <1>1, <1>2
  <2> QED BY <1>1, <1>3, <1>4, <1>5, <2>1, RoadTypedNext
<1>7. ItemsHeld'
  BY <1>1, <1>3 DEF RoadKept, ItemsHeld, BatchWhole
<1>8. SignalsOnce'
  <2>1. \A j \in Incidents : <<j, x>> \notin signals
    BY <1>1 DEF RoadKept, SignalsOnce
  <2>2. \A j \in Incidents, y \in Sightings : <<j, y>> \in signals' => <<j, y>> \in signals \/ (j = i /\ y = x)
    BY <1>5
  <2>3. \A j \in Incidents, y \in Sightings : <<j, y>> \in signals' => status'[y] # "NONE" /\ incident'[j] # "NONE"
    BY <1>1, <1>3, <1>4, <2>2 DEF RoadKept, SignalsOnce
  <2>4. \A j, k \in Incidents, y \in Sightings : <<j, y>> \in signals' /\ <<k, y>> \in signals' => j = k
    BY <2>1, <2>2 DEF RoadKept, SignalsOnce
  <2> QED BY <2>3, <2>4 DEF SignalsOnce
<1>9. OfficersHold'
  BY <1>1, <1>3, <1>4 DEF RoadKept, OfficersHold
<1> QED BY <1>6, <1>7, <1>8, <1>9 DEF RoadKept

\* A sighting moves on: Report, Verify, Close.
LEMMA SightingSteps ==
    ASSUME RoadKept, NEW x \in Sightings, Report(x) \/ Verify(x) \/ Close(x)
    PROVE  RoadKept'
<1>1. PICK t \in DetectionStatus : status' = [status EXCEPT ![x] = t]
  BY DEF Report, Verify, Close, DetectionStatus
<1>2. UNCHANGED <<device, incident, spot, fresh, signals, batch, officer>>
  BY DEF Report, Verify, Close
<1>3. status \in [Sightings -> DetectionStatus \cup {"NONE"}]
  BY RoadTyped DEF RoadKept
<1>4. status' \in [Sightings -> DetectionStatus \cup {"NONE"}] /\ status'[x] = t /\ t # "NONE" /\ \A y \in Sightings \ {x} : status'[y] = status[y]
  BY <1>1, <1>3 DEF DetectionStatus
<1>5. RakshaTypeOK'
  BY <1>2, <1>4, RoadTyped, RoadTypedNext DEF RoadKept
<1>6. (x \in Reports /\ status[x] = "NONE") \/ (status[x] # "NONE" /\ DetectionFree(x))
  BY DEF Report, Verify, Close
<1>7. ItemsHeld'
  <2>1. \A r \in Batches : batch[r].item \in Sightings \cup {NoSighting}
    BY RoadTyped DEF RoadKept, BatchRecord
  <2> QED BY <1>2, <1>4, <1>6, <2>1 DEF RoadKept, ItemsHeld, BatchWhole
<1>8. SignalsOnce'
  BY <1>2, <1>4 DEF RoadKept, SignalsOnce
<1>9. OfficersHold'
  BY <1>2, <1>4, <1>6 DEF RoadKept, OfficersHold, DetectionFree
<1> QED BY <1>5, <1>7, <1>8, <1>9 DEF RoadKept

\* An incident moves on: Confirm, Resolve, HourPasses.
LEMMA IncidentSteps ==
    ASSUME RoadKept, NEW i \in Incidents, Confirm(i) \/ Resolve(i) \/ HourPasses(i)
    PROVE  RoadKept'
<1>1. UNCHANGED <<status, device, spot, signals, batch, officer>> /\ fresh' \subseteq fresh
  BY DEF Confirm, Resolve, HourPasses
<1>2. incident \in [Incidents -> IncidentStatus \cup {"NONE"}] /\ fresh \subseteq Incidents
  BY RoadTyped DEF RoadKept
<1>3. /\ incident' \in [Incidents -> IncidentStatus \cup {"NONE"}]
      /\ incident'[i] # incident[i] =>
           incident'[i] # "NONE" /\ (IncidentFree(i) \/ incident[i] # "AWAITING_CONFIRMATION")
      /\ \A j \in Incidents \ {i} : incident'[j] = incident[j]
  <2>1. CASE Confirm(i)
    BY <1>2, <2>1 DEF Confirm, IncidentStatus
  <2>2. CASE Resolve(i)
    <3>1. incident[i] # "AWAITING_CONFIRMATION"
      BY <2>2 DEF Resolve, AppliesIncident, IncidentTransitions
    <3> QED BY <1>2, <2>2, <3>1 DEF Resolve, IncidentStatus
  <2>3. CASE HourPasses(i)
    BY <1>2, <2>3 DEF HourPasses
  <2> QED BY <2>1, <2>2, <2>3
<1>4. RakshaTypeOK'
  BY <1>1, <1>2, <1>3, RoadTyped, RoadTypedNext DEF RoadKept
<1>5. ItemsHeld'
  BY <1>1 DEF RoadKept, ItemsHeld
<1>6. SignalsOnce'
  BY <1>1, <1>3 DEF RoadKept, SignalsOnce
<1>7. OfficersHold'
  BY <1>1, <1>3 DEF RoadKept, OfficersHold, IncidentFree
<1> QED BY <1>4, <1>5, <1>6, <1>7 DEF RoadKept

\* An officer takes a row, or lets go.
LEMMA OfficerTakes ==
    ASSUME RoadKept, NEW o \in Officers, 
           \/ OfficerAborted(o)
           \/ \E x \in Sightings : RejectMark(o, x)
           \/ \E i \in Incidents : DismissMark(o, i)
    PROVE  RoadKept' /\ UNCHANGED <<db, batch>>
<1>0. officer \in [Officers -> ReviewRecord]
  BY RoadTyped DEF RoadKept
<1>1. UNCHANGED <<db, batch>> /\ UNCHANGED <<status, device, incident, spot, fresh, signals, batch>>
  BY DEF OfficerAborted, RejectMark, DismissMark, db
<1>2. PICK q \in ReviewRecord :
        /\ officer' = [officer EXCEPT ![o] = q]
        /\ \/ q = NoReview
           \/ /\ q.pc = "rejecting" /\ q.det \in Sightings /\ q.inc = NoIncident
              /\ status[q.det] = "DETECTED" /\ DetectionFree(q.det)
           \/ /\ q.pc = "dismissing" /\ q.inc \in Incidents /\ q.det = NoSighting
              /\ incident[q.inc] = "AWAITING_CONFIRMATION" /\ IncidentFree(q.inc)
  <2>1. CASE OfficerAborted(o)
    BY <2>1, NoneAre DEF OfficerAborted
  <2>2. CASE \E x \in Sightings : RejectMark(o, x)
    <3>1. PICK x \in Sightings : RejectMark(o, x)
      BY <2>2
    <3>2. Emptied(x) \in SUBSET Incidents
      BY DEF Emptied, Linked
    <3>3. PICK q \in ReviewRecord : q = [NoReview EXCEPT !.pc = "rejecting", !.det = x, !.linked = Emptied(x)]
      BY <3>2, NoneAre DEF ReviewRecord
    <3>4. q.pc = "rejecting" /\ q.det = x /\ q.inc = NoIncident
      BY <3>3 DEF NoReview
    <3> QED BY <3>1, <3>3, <3>4 DEF RejectMark
  <2>3. CASE \E i \in Incidents : DismissMark(o, i)
    <3>1. PICK i \in Incidents : DismissMark(o, i)
      BY <2>3
    <3>2. PICK q \in ReviewRecord : q = [NoReview EXCEPT !.pc = "dismissing", !.inc = i]
      BY NoneAre DEF ReviewRecord
    <3>3. q.pc = "dismissing" /\ q.inc = i /\ q.det = NoSighting
      BY <3>2 DEF NoReview
    <3> QED BY <3>1, <3>2, <3>3 DEF DismissMark
  <2> QED BY <2>1, <2>2, <2>3
<1>3. officer' \in [Officers -> ReviewRecord] /\ officer'[o] = q /\ \A p \in Officers \ {o} : officer'[p] = officer[p]
  BY <1>0, <1>2
<1>4. RakshaTypeOK'
  BY <1>1, <1>3, RoadTyped, RoadTypedNext DEF RoadKept
<1>5. ItemsHeld' /\ SignalsOnce'
  BY <1>1 DEF RoadKept, ItemsHeld, SignalsOnce
<1>6. OfficersHold'
  BY <1>1, <1>2, <1>3, NoneAre DEF RoadKept, OfficersHold, DetectionFree, IncidentFree
<1> QED BY <1>1, <1>4, <1>5, <1>6 DEF RoadKept

\* A reject or a dismissal is done: it moves what is unconfirmed and what is unjudged.
LEMMA VerdictEffect ==
    ASSUME RoadKept, NEW o \in Officers, RejectCommit(o) \/ DismissCommit(o)
    PROVE  /\ \A x \in Sightings : status'[x] # status[x] =>
                status[x] = "DETECTED" /\ status'[x] = "REJECTED" /\ \A p \in Officers \ {o} : officer[p].det # x
           /\ \A i \in Incidents : incident'[i] # incident[i] =>
                /\ incident[i] = "AWAITING_CONFIRMATION" /\ incident'[i] = "CANCELLED"
                /\ \A p \in Officers \ {o} : officer[p].inc # i
           /\ \A i \in Incidents : i \in fresh' => i \in fresh \/ incident'[i] = "CANCELLED"
           /\ status' \in [Sightings -> DetectionStatus \cup {"NONE"}]
           /\ incident' \in [Incidents -> IncidentStatus \cup {"NONE"}]
           /\ fresh' \subseteq Incidents
           /\ UNCHANGED <<device, spot, signals, batch>>
           /\ officer' = [officer EXCEPT ![o] = NoReview]
<1>0. /\ status \in [Sightings -> DetectionStatus \cup {"NONE"}] /\ incident \in [Incidents -> IncidentStatus \cup {"NONE"}]
      /\ officer \in [Officers -> ReviewRecord] /\ fresh \subseteq Incidents
  BY RoadTyped DEF RoadKept
<1>1. CASE RejectCommit(o)
  <2>1. PICK x \in Sightings : x = officer[o].det /\ status[x] = "DETECTED" /\ \A p \in Officers \ {o} : officer[p].det # x
    BY <1>1, NoneAre DEF RejectCommit, RoadKept, OfficersHold
  <2>2. PICK L \in SUBSET Incidents : L = officer[o].linked
    BY <1>0 DEF ReviewRecord
  <2>3. /\ status' = [status EXCEPT ![x] = "REJECTED"]
        /\ incident' = [i \in Incidents |-> IF i \in L /\ incident[i] = "AWAITING_CONFIRMATION" THEN "CANCELLED" ELSE incident[i]]
        /\ fresh' = fresh \cup {i \in L : incident[i] = "AWAITING_CONFIRMATION"}
        /\ \A i \in L : IncidentFree(i)
        /\ officer' = [officer EXCEPT ![o] = NoReview]
        /\ UNCHANGED <<device, spot, signals, batch>>
    BY <1>1, <2>1, <2>2 DEF RejectCommit, StillQueued
  <2>4. status' \in [Sightings -> DetectionStatus \cup {"NONE"}] /\ status'[x] = "REJECTED" /\ \A y \in Sightings \ {x} : status'[y] = status[y]
    BY <1>0, <2>3 DEF DetectionStatus
  <2>5. incident' \in [Incidents -> IncidentStatus \cup {"NONE"}]
    BY <1>0, <2>3 DEF IncidentStatus
  <2> QED BY <1>0, <2>1, <2>2, <2>3, <2>4, <2>5 DEF IncidentFree
<1>2. CASE DismissCommit(o)
  <2>1. PICK i \in Incidents : i = officer[o].inc /\ incident[i] = "AWAITING_CONFIRMATION" /\ \A p \in Officers \ {o} : officer[p].inc # i
    BY <1>2, NoneAre DEF DismissCommit, RoadKept, OfficersHold
  <2>2. PICK J \in SUBSET Sightings : J = UnjudgedOf(i)
    BY DEF UnjudgedOf
  <2>3. /\ incident' = [incident EXCEPT ![i] = "CANCELLED"] /\ fresh' = fresh \cup {i}
        /\ status' = [x \in Sightings |-> IF x \in J THEN "REJECTED" ELSE status[x]]
        /\ \A x \in J : DetectionFree(x)
        /\ officer' = [officer EXCEPT ![o] = NoReview]
        /\ UNCHANGED <<device, spot, signals, batch>>
    BY <1>2, <2>1, <2>2 DEF DismissCommit
  <2>4. \A x \in J : status[x] = "DETECTED"
    BY <2>2 DEF UnjudgedOf
  <2>5. status' \in [Sightings -> DetectionStatus \cup {"NONE"}]
    BY <1>0, <2>3 DEF DetectionStatus
  <2>6. incident' \in [Incidents -> IncidentStatus \cup {"NONE"}] /\ incident'[i] = "CANCELLED" /\ \A j \in Incidents \ {i} : incident'[j] = incident[j]
    BY <1>0, <2>3 DEF IncidentStatus
  <2> QED BY <1>0, <2>1, <2>3, <2>4, <2>5, <2>6 DEF DetectionFree
<1> QED BY <1>1, <1>2

LEMMA VerdictStep ==
    ASSUME RoadKept, NEW o \in Officers, RejectCommit(o) \/ DismissCommit(o)
    PROVE  RoadKept'
<1> USE VerdictEffect, NoneAre
<1>1. officer' \in [Officers -> ReviewRecord] /\ officer'[o] = NoReview /\ \A p \in Officers \ {o} : officer'[p] = officer[p]
  BY RoadTyped DEF RoadKept
<1>2. RakshaTypeOK'
  BY <1>1, RoadTyped, RoadTypedNext DEF RoadKept
<1>3. ItemsHeld'
  <2>1. \A r \in Batches : batch[r].item \in Sightings \cup {NoSighting}
    BY RoadTyped DEF RoadKept, BatchRecord
  <2> QED BY <2>1 DEF RoadKept, ItemsHeld, BatchWhole
<1>4. SignalsOnce'
  BY DEF RoadKept, SignalsOnce
<1>5. OfficersHold'
  BY <1>1 DEF RoadKept, OfficersHold
<1> QED BY <1>2, <1>3, <1>4, <1>5 DEF RoadKept

LEMMA RoadInitKept == RakshaInit => RoadKept
<1> SUFFICES ASSUME RakshaInit PROVE RoadKept
  OBVIOUS
<1> USE NoneAre
<1>1. /\ status = [x \in Sightings |-> "NONE"] /\ device = [x \in Sightings |-> NoDevice]
      /\ incident = [i \in Incidents |-> "NONE"] /\ spot = [i \in Incidents |-> CHOOSE p \in Spots : TRUE]
      /\ fresh = {} /\ signals = {} /\ batch = [r \in Batches |-> NoBatch] /\ officer = [o \in Officers |-> NoReview]
  BY DEF RakshaInit
<1>2. DOMAIN spot = Incidents
  BY <1>1
<1>3. batch \in [Batches -> BatchRecord] /\ officer \in [Officers -> ReviewRecord]
  BY <1>1
<1>4. RakshaTypeOK
  BY <1>1, <1>2, <1>3 DEF RakshaTypeOK, BatchRecord, ReviewRecord
<1>5. ItemsHeld /\ SignalsOnce /\ OfficersHold
  BY <1>1 DEF ItemsHeld, SignalsOnce, OfficersHold
<1> QED BY <1>4, <1>5 DEF RoadKept

LEMMA RoadStep == RoadKept /\ [RakshaNext]_rakshaVars => RoadKept'
<1> SUFFICES ASSUME RoadKept, [RakshaNext]_rakshaVars PROVE RoadKept'
  OBVIOUS
<1>1. CASE UNCHANGED rakshaVars
  BY <1>1 DEF rakshaVars, db, RoadKept, RakshaTypeOK, ItemsHeld, BatchWhole, SignalsOnce, OfficersHold
<1>2. ASSUME NEW r \in Batches, Ingest(r) PROVE RoadKept'
  BY <1>2, BatchSteps, CommitStep DEF Ingest
<1>3. ASSUME NEW o \in Officers, Review(o) PROVE RoadKept'
  BY <1>3, OfficerTakes, VerdictStep DEF Review
<1>4. ASSUME NEW x \in Sightings, Report(x) \/ Verify(x) \/ Close(x) PROVE RoadKept'
  BY <1>4, SightingSteps
<1>5. ASSUME NEW i \in Incidents, Confirm(i) \/ Resolve(i) \/ HourPasses(i) PROVE RoadKept'
  BY <1>5, IncidentSteps
<1> QED BY <1>1, <1>2, <1>3, <1>4, <1>5 DEF RakshaNext

LEMMA RoadAlwaysKept == RakshaSpec => []RoadKept
BY RoadInitKept, RoadStep, PTL DEF RakshaSpec

\* The variables of the road's record stay what they are declared to be.
THEOREM RakshaTypes == RakshaSpec => []RakshaTypeOK
<1>1. RoadKept => RakshaTypeOK
  BY DEF RoadKept
<1> QED BY <1>1, RoadAlwaysKept, PTL

\* A sighting counts once, whichever devices send it, however often and however
\* concurrently (raksha.ts, the source key's unique index).
THEOREM SightingCountsOnce == RakshaSpec => []OneSignalPerSighting
<1>1. RoadKept => OneSignalPerSighting
  <2> SUFFICES ASSUME RoadKept, NEW x \in Sightings
               PROVE  Cardinality(Linked(x)) <= 1 /\ (Linked(x) # {} => status[x] # "NONE")
    BY DEF OneSignalPerSighting
  <2>1. Linked(x) # {} => status[x] # "NONE"
    BY DEF RoadKept, SignalsOnce, Linked
  <2>2. CASE Linked(x) = {}
    BY <2>1, <2>2, FS_EmptySet
  <2>3. CASE Linked(x) # {}
    <3>1. PICK i : i \in Linked(x)
      BY <2>3
    <3>2. Linked(x) = {i}
      BY <3>1 DEF RoadKept, SignalsOnce, Linked
    <3>3. Cardinality({i}) = 1
      BY FS_Singleton
    <3>4. Cardinality(Linked(x)) <= 1
      BY <3>2, <3>3
    <3> QED BY <2>1, <3>4
  <2> QED BY <2>2, <2>3
<1> QED BY <1>1, RoadAlwaysKept, PTL

\* What a human has decided no other request undoes.
LEMMA Judged == RoadKept /\ [RakshaNext]_rakshaVars => JudgementStands
<1> SUFFICES ASSUME RoadKept, [RakshaNext]_rakshaVars PROVE JudgementStands
  OBVIOUS
<1>0. status \in [Sightings -> DetectionStatus \cup {"NONE"}] /\ incident \in [Incidents -> IncidentStatus \cup {"NONE"}]
  BY RoadTyped DEF RoadKept
<1>1. CASE UNCHANGED <<status, incident>>
  BY <1>1 DEF JudgementStands
<1>2. ASSUME NEW r \in Batches, Ingest(r) PROVE JudgementStands
  <2>1. CASE ~ItemCommit(r)
    <3>1. UNCHANGED <<db, officer>>
      BY <1>2, <2>1, BatchSteps DEF Ingest
    <3> QED BY <1>1, <3>1 DEF db
  <2>2. CASE ItemCommit(r)
    <3>1. PICK x \in Sightings, i \in Incidents \cup {NoIncident} :
            /\ status[x] = "NONE" /\ status' = [status EXCEPT ![x] = "DETECTED"]
            /\ \/ incident' = incident
               \/ i \in Incidents /\ incident[i] = "NONE" /\ incident' = [incident EXCEPT ![i] = "AWAITING_CONFIRMATION"]
      BY <2>2, CommitEffect
    <3>2. status'[x] = "DETECTED" /\ \A y \in Sightings \ {x} : status'[y] = status[y]
      BY <1>0, <3>1
    <3>3. \A j \in Incidents : incident'[j] = incident[j] \/ incident'[j] = "AWAITING_CONFIRMATION"
      BY <1>0, <3>1
    <3> QED BY <3>1, <3>2, <3>3 DEF JudgementStands
  <2> QED BY <2>1, <2>2
<1>3. ASSUME NEW o \in Officers, Review(o) PROVE JudgementStands
  <2>1. CASE RejectCommit(o) \/ DismissCommit(o)
    BY <2>1, VerdictEffect DEF JudgementStands
  <2>2. CASE ~(RejectCommit(o) \/ DismissCommit(o))
    <3>1. UNCHANGED <<db, batch>>
      BY <1>3, <2>2, OfficerTakes DEF Review
    <3> QED BY <1>1, <3>1 DEF db
  <2> QED BY <2>1, <2>2
<1>4. ASSUME NEW x \in Sightings, Report(x) \/ Verify(x) \/ Close(x) PROVE JudgementStands
  <2>1. incident' = incident
    BY <1>4 DEF Report, Verify, Close
  <2>2. /\ \A y \in Sightings \ {x} : status'[y] = status[y]
        /\ status[x] # "DETECTED" => <<status[x], status'[x]>> \in {<<"NONE", "DETECTED">>, <<"VERIFIED", "CLOSED">>}
    BY <1>0, <1>4 DEF Report, Verify, Close
  <2> QED BY <2>1, <2>2 DEF JudgementStands
<1>5. ASSUME NEW i \in Incidents, Confirm(i) \/ Resolve(i) \/ HourPasses(i) PROVE JudgementStands
  <2>1. status' = status
    BY <1>5 DEF Confirm, Resolve, HourPasses
  <2>2. \A j \in Incidents : incident'[j] = incident[j] \/ incident'[j] \in {"RESPONDING", "RESOLVED"}
    BY <1>0, <1>5 DEF Confirm, Resolve, HourPasses
  <2> QED BY <2>1, <2>2 DEF JudgementStands
<1> QED BY <1>1, <1>2, <1>3, <1>4, <1>5 DEF RakshaNext, rakshaVars, db

\* A batch is the only one of its device; and one that is about to raise an incident
\* has seen every open and recent one that its device has raised at that spot.
HazardSeen ==
    /\ \A r, s \in Batches : batch[r].device = batch[s].device /\ batch[r].device # NoDevice => r = s
    /\ \A r \in Batches, j \in Incidents :
         /\ batch[r].target \in Incidents /\ incident[batch[r].target] = "NONE"
         /\ j \in fresh /\ incident[j] \in Unclosed /\ spot[j] = Spot[batch[r].item]
         => \A y \in Sightings : <<j, y>> \in signals => device[y] # batch[r].device
    /\ \A i \in Incidents : incident[i] # "DETECTED"

LEMMA HazardBatch ==
    ASSUME RoadKept, HazardSeen, ~Overlap, NEW r \in Batches, NEW q \in BatchRecord, BatchMove(r, q)
    PROVE  HazardSeen'
<1>1. UNCHANGED <<status, device, incident, spot, fresh, signals, officer>>
  BY DEF BatchMove, db
<1>2. batch'[r] = q /\ \A s \in Batches \ {r} : batch'[s] = batch[s]
  BY RoadTyped DEF RoadKept, BatchMove
<1>3. \A s, t \in Batches : batch'[s].device = batch'[t].device /\ batch'[s].device # NoDevice => s = t
  BY <1>2 DEF HazardSeen, BatchMove
<1>4. ASSUME NEW s \in Batches, NEW j \in Incidents,
             batch'[s].target \in Incidents, incident[batch'[s].target] = "NONE",
             j \in fresh, incident[j] \in Unclosed, spot[j] = Spot[batch'[s].item],
             NEW y \in Sightings, <<j, y>> \in signals
      PROVE  device[y] # batch'[s].device
  <2>1. CASE s # r
    BY <1>2, <1>4, <2>1 DEF HazardSeen
  <2>2. CASE s = r /\ SameHazard(q.device, Spot[q.item]) = {}
    <3>1. incident[j] \in {"AWAITING_CONFIRMATION", "CONFIRMED", "RESPONDING"}
      BY <1>4 DEF HazardSeen, Unclosed, IncidentStatus, Closed
    <3> QED BY <1>2, <1>4, <2>2, <3>1 DEF SameHazard, Counts
  <2>3. CASE s = r /\ SameHazard(q.device, Spot[q.item]) # {}
    <3>1. q.target = batch[r].target /\ q.item = batch[r].item /\ q.device = batch[r].device
      BY <1>2, <1>4, <2>3 DEF BatchMove
    <3> QED BY <1>2, <1>4, <2>3, <3>1 DEF HazardSeen
  <2> QED BY <2>1, <2>2, <2>3
<1> QED BY <1>1, <1>3, <1>4 DEF HazardSeen

\* The commit raises an incident only where its batch had seen none.
LEMMA HazardCommit ==
    ASSUME RoadKept, HazardSeen, ~Overlap, NEW r \in Batches, ItemCommit(r)
    PROVE  HazardSeen' /\ OneIncidentPerHazard
<1>1. PICK x \in Sightings, i \in Incidents \cup {NoIncident} :
             /\ x = batch[r].item /\ i = batch[r].target
             /\ status[x] = "NONE" /\ x \notin Reports
             /\ status' = [status EXCEPT ![x] = "DETECTED"] /\ device' = [device EXCEPT ![x] = batch[r].device]
             /\ batch[r].device \in Devices
             /\ \/ /\ i \in Incidents /\ incident[i] = "NONE"
                   /\ incident' = [incident EXCEPT ![i] = "AWAITING_CONFIRMATION"]
                   /\ spot' = [spot EXCEPT ![i] = Spot[x]] /\ fresh' = fresh \cup {i}
                \/ /\ i \notin Incidents \/ incident[i] # "NONE"
                   /\ UNCHANGED <<incident, spot, fresh>>
             /\ signals' = IF i = NoIncident THEN signals ELSE signals \cup {<<i, x>>}
             /\ officer' = officer
             /\ batch' \in [Batches -> BatchRecord]
             /\ \A s \in Batches \ {r} : batch'[s] = batch[s]
             /\ batch'[r].pc = "open" /\ batch'[r].item = NoSighting /\ batch'[r].target = NoIncident
             /\ batch'[r].device = batch[r].device /\ BatchWhole(batch'[r])
  BY CommitEffect
<1>2. /\ device \in [Sightings -> Devices \cup {NoDevice}] /\ incident \in [Incidents -> IncidentStatus \cup {"NONE"}]
      /\ DOMAIN spot = Incidents
  BY RoadTyped DEF RoadKept
<1>3. device'[x] = batch[r].device /\ \A y \in Sightings \ {x} : device'[y] = device[y]
  BY <1>1, <1>2
<1>4. \A j \in Incidents : <<j, x>> \notin signals
  BY <1>1 DEF RoadKept, SignalsOnce
<1>5. \A j \in Incidents, y \in Sightings : <<j, y>> \in signals' => <<j, y>> \in signals \/ (j = i /\ y = x)
  BY <1>1
<1>6. /\ \A j \in Incidents \ {i} : incident'[j] = incident[j] /\ spot'[j] = spot[j] /\ (j \in fresh' => j \in fresh)
      /\ i \in Incidents /\ incident[i] # "NONE" => incident'[i] = incident[i] /\ spot'[i] = spot[i] /\ (i \in fresh' => i \in fresh)
      /\ i \in Incidents /\ incident[i] = "NONE" => incident'[i] = "AWAITING_CONFIRMATION" /\ spot'[i] = Spot[x]
      /\ \A j \in Incidents : incident[j] # "NONE" => incident'[j] = incident[j]
  <2>1. CASE i \in Incidents /\ incident[i] = "NONE"
    BY <1>1, <1>2, <2>1
  <2>2. CASE ~(i \in Incidents /\ incident[i] = "NONE")
    BY <1>1, <2>2
  <2> QED BY <2>1, <2>2
<1>7. \A y \in Sightings : i \in Incidents /\ incident[i] = "NONE" => <<i, y>> \notin signals
  BY DEF RoadKept, SignalsOnce
<1>8. HazardSeen'
  <2>1. \A s, t \in Batches : batch'[s].device = batch'[t].device /\ batch'[s].device # NoDevice => s = t
    BY <1>1 DEF HazardSeen
  <2>2. \A j \in Incidents : incident'[j] # "DETECTED"
    BY <1>6 DEF HazardSeen
  <2>3. ASSUME NEW s \in Batches, NEW j \in Incidents,
               batch'[s].target \in Incidents, incident'[batch'[s].target] = "NONE",
               j \in fresh', incident'[j] \in Unclosed, spot'[j] = Spot[batch'[s].item],
               NEW y \in Sightings, <<j, y>> \in signals'
        PROVE  device'[y] # batch'[s].device
    <3>1. s # r /\ batch'[s] = batch[s]
      BY <1>1, <2>3, NoneAre
    <3>2. batch[s].device # batch[r].device
      BY <1>1, <3>1, NoneAre DEF HazardSeen
    <3>3. CASE y = x
      BY <1>3, <3>1, <3>2, <3>3
    <3>4. CASE y # x
      <4>1. <<j, y>> \in signals /\ incident[j] # "NONE"
        BY <1>5, <2>3, <3>4 DEF RoadKept, SignalsOnce
      <4>2. j \in fresh /\ incident[j] \in Unclosed /\ spot[j] = Spot[batch[s].item]
        BY <1>6, <2>3, <3>1, <4>1
      <4>3. incident[batch[s].target] = "NONE"
        BY <1>6, <2>3, <3>1
      <4> QED BY <1>3, <2>3, <3>1, <3>4, <4>1, <4>2, <4>3 DEF HazardSeen
    <3> QED BY <3>3, <3>4
  <2> QED BY <2>1, <2>2, <2>3 DEF HazardSeen
<1>9. OneIncidentPerHazard
  <2> SUFFICES ASSUME NEW k \in Incidents, incident[k] = "NONE", incident'[k] # "NONE",
                      NEW w \in Sightings, NEW j \in Incidents,
                      <<k, w>> \in signals', j \in fresh, incident[j] \in Unclosed, spot[j] = spot'[k],
                      NEW y \in Sightings, <<j, y>> \in signals
               PROVE  device[y] # device'[w]
    BY DEF OneIncidentPerHazard
  <2>1. k = i /\ w = x
    BY <1>5, <1>6, <1>7
  <2>2. device'[w] = batch[r].device /\ spot[j] = Spot[batch[r].item]
    BY <1>1, <1>3, <1>6, <2>1
  <2> QED BY <1>1, <2>1, <2>2 DEF HazardSeen
<1> QED BY <1>8, <1>9

LEMMA HazardStep ==
    ASSUME ~Overlap, RoadKept, HazardSeen, [RakshaNext]_rakshaVars
    PROVE  HazardSeen' /\ OneIncidentPerHazard
<1>1. CASE UNCHANGED <<device, spot, signals, batch>> /\ UNCHANGED <<incident, fresh>>
  BY <1>1 DEF HazardSeen, OneIncidentPerHazard
<1>2. ASSUME NEW r \in Batches, Ingest(r) PROVE HazardSeen' /\ OneIncidentPerHazard
  <2>1. CASE ~ItemCommit(r)
    <3>1. PICK q \in BatchRecord : BatchMove(r, q)
      BY <1>2, <2>1, BatchEffect DEF Ingest
    <3>2. OneIncidentPerHazard
      BY <3>1 DEF BatchMove, db, OneIncidentPerHazard
    <3> QED BY <3>1, <3>2, HazardBatch
  <2>2. CASE ItemCommit(r)
    BY <2>2, HazardCommit
  <2> QED BY <2>1, <2>2
<1>3. ASSUME NEW o \in Officers, Review(o) PROVE HazardSeen' /\ OneIncidentPerHazard
  <2>1. CASE RejectCommit(o) \/ DismissCommit(o)
    <3>1. \A i \in Incidents : incident'[i] = "NONE" <=> incident[i] = "NONE"
      BY <2>1, VerdictEffect
    <3>2. \A i \in Incidents : i \in fresh' /\ incident'[i] \in Unclosed => i \in fresh /\ incident'[i] = incident[i]
      BY <2>1, VerdictEffect DEF Unclosed, Closed
    <3>3. \A i \in Incidents : incident'[i] # "DETECTED"
      BY <2>1, VerdictEffect DEF HazardSeen
    <3>4. UNCHANGED <<device, spot, signals, batch>>
      BY <2>1, VerdictEffect
    <3> QED BY <3>1, <3>2, <3>3, <3>4 DEF HazardSeen, OneIncidentPerHazard
  <2>2. CASE ~(RejectCommit(o) \/ DismissCommit(o))
    <3>1. UNCHANGED <<db, batch>>
      BY <1>3, <2>2, OfficerTakes DEF Review
    <3> QED BY <1>1, <3>1 DEF db
  <2> QED BY <2>1, <2>2
<1>4. ASSUME NEW x \in Sightings, Report(x) \/ Verify(x) \/ Close(x) PROVE HazardSeen' /\ OneIncidentPerHazard
  BY <1>1, <1>4 DEF Report, Verify, Close
<1>5. ASSUME NEW i \in Incidents, Confirm(i) \/ Resolve(i) \/ HourPasses(i) PROVE HazardSeen' /\ OneIncidentPerHazard
  <2>1. UNCHANGED <<device, spot, signals, batch>> /\ fresh' \subseteq fresh
    BY <1>5 DEF Confirm, Resolve, HourPasses
  <2>2. /\ \A j \in Incidents : incident'[j] = "NONE" <=> incident[j] = "NONE"
        /\ \A j \in Incidents : incident'[j] \in Unclosed => incident[j] \in Unclosed
        /\ \A j \in Incidents : incident'[j] = "DETECTED" => incident[j] = "DETECTED"
    <3>1. incident \in [Incidents -> IncidentStatus \cup {"NONE"}]
      BY RoadTyped DEF RoadKept
    <3>2. CASE Confirm(i)
      BY <3>1, <3>2 DEF Confirm, Unclosed, Closed, IncidentStatus
    <3>3. CASE Resolve(i)
      <4>1. incident[i] # "NONE"
        BY <3>3 DEF Resolve, AppliesIncident, IncidentTransitions
      <4> QED BY <3>1, <3>3, <4>1 DEF Resolve, Unclosed, Closed, IncidentStatus
    <3>4. CASE HourPasses(i)
      BY <3>4 DEF HourPasses
    <3> QED BY <1>5, <3>2, <3>3, <3>4
  <2> QED BY <2>1, <2>2 DEF HazardSeen, OneIncidentPerHazard
<1> QED BY <1>1, <1>2, <1>3, <1>4, <1>5 DEF RakshaNext, rakshaVars, db

\* A verdict stands, and an emergency that a human stands behind is not cancelled by
\* a reviewer, in any interleaving of officers and devices (raksha.ts, the guarded
\* updates and the rows they lock).
THEOREM VerdictsStand == RakshaSpec => [][JudgementStands]_rakshaVars
BY RoadAlwaysKept, Judged, PTL DEF RakshaSpec

\* With devices that wait for the answer to a batch before they send the next, no
\* incident is raised beside a recent one of the same device at the same spot.
THEOREM RoadRecordAlwaysStands == ~Overlap => (RakshaSpec => RoadRecordStands)
<1> SUFFICES ASSUME ~Overlap PROVE RakshaSpec => RoadRecordStands
  OBVIOUS
<1>1. RakshaInit => HazardSeen
  <2>1. ASSUME RakshaInit PROVE HazardSeen
    BY <2>1, NoneAre DEF RakshaInit, HazardSeen
  <2> QED BY <2>1
<1>2. RoadKept /\ HazardSeen /\ [RakshaNext]_rakshaVars => HazardSeen' /\ OneIncidentPerHazard
  BY HazardStep
<1>3. RakshaSpec => [](RoadKept /\ HazardSeen)
  BY <1>1, <1>2, RoadInitKept, RoadStep, PTL DEF RakshaSpec
<1> QED BY <1>2, <1>3, Judged, PTL DEF RakshaSpec, RoadRecordStands
=============================================================================
