---------------------------- MODULE AzureKinect ----------------------------
(* The Azure Kinect driver and the rgbd_input through which an application *)
(* uses it: the application's thread starts and stops the device and polls *)
(* it for frames, the capture thread fills the caches until it is told to  *)
(* stop or the device fails, and hands the error over.                     *)
(*                                                                         *)
(* Frames are numbered by the device from the start of its cameras, modulo *)
(* FrameIds, which is more than a cache holds.                             *)
EXTENDS FrameRing
CONSTANTS FrameIds,          \* how many frames are told apart
          Configurations     \* the sets of streams the device is started with

ASSUME NumbersAssumption == FrameIds \in Nat \ {0} /\ 0..(FrameIds - 1) \subseteq Frame
ASSUME ConfigurationsAssumption == Configurations \subseteq SUBSET Streams

VARIABLES started,           \* rgbd_input::started
          attached,          \* a driver with a device_serial and an open device
          device_started,    \* rgbd_kinect_azure::device_started
          device_error,      \* capture_thread_device_error # nullptr
          has_new_messages,  \* capture_thread_has_new_messages
          cameras,           \* the cameras of the device are running
          captured,          \* the number of the next frame
          active,            \* the argument of capture
          thread,            \* where the capture thread is
          master,            \* the call the application's thread is in
          reading            \* the stream get_frame has found a frame on

inputVars == <<started, attached>>
errorVars == <<device_error, has_new_messages>>
runVars == <<captured, active>>
vars == <<ringVars, inputVars, errorVars, runVars, device_started, cameras, thread,
          master, reading>>

Calls == {"stop", "detach", "attach", "destroy", "check_errors"}

TypeOK ==
    /\ RingTypeOK
    /\ {started, attached, device_started, device_error, has_new_messages, cameras}
           \subseteq BOOLEAN
    /\ captured \in 0..(FrameIds - 1)
    /\ active \in Configurations
    /\ thread \in {"none", "test", "capture", "failed", "ended"}
    /\ master \in Calls \cup {"idle", "reading"}
    /\ reading \in Streams

Init ==
    /\ RingInit
    /\ started = FALSE
    /\ attached = FALSE
    /\ device_started = FALSE
    /\ device_error = FALSE
    /\ has_new_messages = FALSE
    /\ cameras = FALSE
    /\ captured = 0
    /\ active \in Configurations
    /\ thread = "none"
    /\ master = "idle"
    /\ reading \in Streams
-----------------------------------------------------------------------------
\* The capture thread: capture(is).

\* Mutant: the request to stop is missed.
IsRunningAlways == TRUE

IsRunning == device_started

TestRunning ==
    /\ thread = "test"
    /\ thread' = IF IsRunning THEN "capture" ELSE "ended"
    /\ UNCHANGED <<ringVars, inputVars, errorVars, runVars, device_started, cameras,
                   master, reading>>

\* The device delivers, and the frames are stored under the lock.
Capture ==
    /\ thread = "capture"
    /\ Store(active, captured)
    /\ captured' = IF captured + 1 = FrameIds THEN 0 ELSE captured + 1
    /\ thread' = "test"
    /\ UNCHANGED <<inputVars, errorVars, active, device_started, cameras, master, reading>>

\* The device throws: the error is stored, then the flag is set, then it is over.
CaptureThrows ==
    /\ thread = "capture"
    /\ thread' = "failed"
    /\ device_error' = TRUE
    /\ UNCHANGED <<ringVars, inputVars, has_new_messages, runVars, device_started,
                   cameras, master, reading>>

\* Mutant: keeps the error to itself.
MessageNever == UNCHANGED has_new_messages

Message == has_new_messages' = TRUE

PublishError ==
    /\ thread = "failed"
    /\ Message
    /\ thread' = "ended"
    /\ UNCHANGED <<ringVars, inputVars, device_error, runVars, device_started, cameras,
                   master, reading>>

CaptureThread == TestRunning \/ Capture \/ CaptureThrows \/ PublishError
-----------------------------------------------------------------------------
\* The application's thread.

\* rgbd_input::attach creates a driver for the device, if there is one.
NewDriver ==
    /\ attached' \in BOOLEAN
    /\ ResetRing(Empty)
    /\ device_error' = FALSE
    /\ has_new_messages' = FALSE

ReturnFrom(call) ==
    \/ /\ call = "stop"
       /\ started' = FALSE
       /\ UNCHANGED <<attached, ringVars, errorVars>>
    \/ /\ call \in {"detach", "destroy"}
       /\ attached' = FALSE
       /\ started' = (started /\ call = "detach")
       /\ UNCHANGED <<ringVars, errorVars>>
    \/ /\ call = "attach"
       /\ NewDriver
       /\ UNCHANGED started
    \/ /\ call = "check_errors"
       /\ UNCHANGED <<inputVars, ringVars, errorVars>>

\* stop_device on behalf of a call: a device that does not run is left alone.
StopDevice(call) ==
    /\ master = "idle"
    /\ UNCHANGED <<runVars, cameras, thread, reading>>
    /\ IF device_started
       THEN /\ device_started' = FALSE
            /\ master' = call
            /\ UNCHANGED <<ringVars, inputVars, errorVars>>
       ELSE /\ ReturnFrom(call)
            /\ UNCHANGED <<device_started, master>>

\* Mutant: does not wait for the thread.
JoinNothing == UNCHANGED thread

JoinThread == thread = "ended" /\ thread' = "none"

\* Mutant: leaves the cameras on.
CamerasGoOn == UNCHANGED cameras

StopCameras == cameras' = FALSE

\* The rest of stop_device, from the join on.
Join ==
    /\ master \in Calls
    /\ JoinThread
    /\ StopCameras
    /\ master' = "idle"
    /\ ReturnFrom(master)
    /\ UNCHANGED <<device_started, runVars, reading>>

Attach == StopDevice("attach")
Detach == attached /\ StopDevice("detach")
Stop == attached /\ started /\ StopDevice("stop")

\* ~rgbd_input, and a new one in its place.
Destroy == StopDevice("destroy")

\* A device that has failed is closed and opened again, if it is still there.
Recover ==
    IF device_error
    THEN /\ attached' \in BOOLEAN
         /\ ResetRing(frames)
         /\ device_error' = FALSE
         /\ has_new_messages' = FALSE
    ELSE UNCHANGED <<attached, ringVars, errorVars>>

\* start_device is not called while it runs, see StoppedIsOff; the device
\* may refuse to open or to start its cameras.
Start(streams) ==
    /\ master = "idle"
    /\ attached /\ ~started /\ ~device_started
    /\ Recover
    /\ started' \in BOOLEAN /\ (started' => attached')
    /\ cameras' = started'
    /\ device_started' = started'
    /\ IF started'
       THEN thread' = "test" /\ active' = streams /\ captured' = 0
       ELSE UNCHANGED <<thread, runVars>>
    /\ UNCHANGED <<master, reading>>

\* get_frame looks at the flag before it takes the lock ...
FindFrame(is) ==
    /\ master = "idle"
    /\ attached /\ started /\ device_started
    /\ has_new[is]
    /\ master' = "reading"
    /\ reading' = is
    /\ UNCHANGED <<ringVars, inputVars, errorVars, runVars, device_started, cameras, thread>>

\* ... and fetches the frame under it.
TakeFrame ==
    /\ master = "reading"
    /\ Take(reading)
    /\ master' = "idle"
    /\ UNCHANGED <<inputVars, errorVars, runVars, device_started, cameras, thread, reading>>

\* Without a frame it looks for messages of the capture thread.
CheckErrors(is) ==
    /\ attached /\ started /\ device_started
    /\ ~has_new[is]
    /\ has_new_messages /\ device_error
    /\ StopDevice("check_errors")

Poll == \E is \in Streams : FindFrame(is) \/ CheckErrors(is)

Application ==
    \/ Attach \/ Detach \/ Stop \/ Destroy \/ Join \/ Poll \/ TakeFrame
    \/ \E streams \in Configurations : Start(streams)

Next == CaptureThread \/ Application

Spec == Init /\ [][Next]_vars

\* The capture thread is scheduled and the device answers or throws; the
\* application returns from its calls and goes on polling.
FairSpec ==
    /\ Spec
    /\ WF_vars(CaptureThread)
    /\ WF_vars(Join \/ TakeFrame \/ Poll)
-----------------------------------------------------------------------------
\* The capture thread uses the device only while its cameras run.
CaptureHasCameras == thread \in {"test", "capture", "failed"} => attached /\ cameras

\* Between calls a device that does not run has neither cameras nor a thread
\* left, so that the next start can create its own; and rgbd_input never takes a
\* running device for a stopped one, so that stop and the destructor reach it.
StoppedIsOff ==
    /\ master = "idle" /\ ~device_started => ~cameras /\ thread = "none"
    /\ device_started => attached /\ started

\* An error is there when its flag is seen, and it is an error of this run: one
\* that a former run left behind would stop the device at the first poll.
ErrorIsOfThisRun ==
    /\ has_new_messages => device_error
    /\ device_started /\ device_error => thread \in {"failed", "ended"}

\* Every call returns, the joins of stop_device included.
CallsReturn == master # "idle" ~> master = "idle"

\* An error of the capture thread stops the device of an application that polls.
ErrorsStopTheDevice == device_error /\ device_started ~> ~device_started
=============================================================================
