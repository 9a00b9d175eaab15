---------------------------- MODULE MCOltServer ----------------------------
(* The OLT's server and the process around it for TLC.  They share no variable: main has
   created the OLT and the OLT's goroutines never touch the WaitGroup, the web server or
   the publisher.  The first state of a behaviour chooses the part that moves.         *)
EXTENDS OltServer

CONSTANTS Devices, Capacity, MaxEvents, Clients

VARIABLES
  main, started, listening, group, apiDoneChannel, eventChannel, device, publisher, kafka,
  imageRequests, image, fault,
  part \* the part that moves

process == <<main, started, listening, group, apiDoneChannel, eventChannel, device,
             publisher, kafka, imageRequests, image, fault>>

P == INSTANCE Process

MCInit == Init /\ P!ProcessInit /\ part \in {"olt", "process"}

MCNext ==
  /\ UNCHANGED part
  /\ \/ part = "olt" /\ Next /\ UNCHANGED process
     \/ part = "process" /\ P!ProcessNext /\ UNCHANGED vars

\* The scheduler does not let all goroutines wait when one of them can go on.
MCSpec ==
  /\ MCInit /\ [][MCNext]_<<vars, process, part>>
  /\ WF_vars(part = "olt" /\ Goroutine /\ UNCHANGED <<process, part>>)

\* The WaitGroup and the counter of the images, see Process.
CountsExact == P!CountsExact

\* The events of a device stay in order, see Process.
PublishedInOrder == P!PublishedInOrder

\* They reach the producer, and the API servers are left after SIGTERM, see Process.
Settles == P!Settles
=============================================================================
