------------------------------- MODULE Mailbox ------------------------------
(***************************************************************************)
(* Mailboxes with room for one message pointer (brtos/brtos/mbox.c).       *)
(***************************************************************************)
EXTENDS Event

CONSTANTS
  Message,   \* what the posted pointers may point to
  NULL,
  Readers    \* the tasks that pend on mailboxes

ASSUME MailboxAssumption ==
  /\ NULL \notin Message
  /\ Readers \subseteq Task

VARIABLES
  OSEventState,     \* TRUE: AVAILABLE_MESSAGE, FALSE: NO_MESSAGE
  OSEventPointer

mboxVars == <<OSEventState, OSEventPointer>>
vars     == <<kernelVars, eventVars, mboxVars>>

Pointer == Message \cup {NULL}

-----------------------------------------------------------------------------
OSMboxCreate(message) ==
  \E e \in ObjectId :
    /\ CreateEvent(e)
    /\ OSEventState' = [OSEventState EXCEPT ![e] = (message # NULL)]
    /\ OSEventPointer' = [OSEventPointer EXCEPT ![e] = message]
    /\ UNCHANGED kernelVars

OSMboxDelete(e) ==
  /\ DeleteEvent(e)
  /\ DeleteWithWaiters \/ \A t \in Task : pend[t] # e
  /\ OSEventState' = [OSEventState EXCEPT ![e] = FALSE]
  /\ OSEventPointer' = [OSEventPointer EXCEPT ![e] = NULL]
  /\ UNCHANGED kernelVars

\* The message is handed to the caller and the slot is free; the pointer stays.
TakeMessage(e) ==
  /\ OSEventState' = [OSEventState EXCEPT ![e] = FALSE]
  /\ UNCHANGED OSEventPointer

OSMboxPend(t, e, w) ==
  /\ InUserCode(t)
  /\ OSEventAllocated[e]
  /\ \/ OSEventState[e] /\ TakeMessage(e) /\ UNCHANGED <<kernelVars, eventVars>>
     \/ ~OSEventState[e] /\ WaitEvent(t, e, w) /\ UNCHANGED mboxVars

\* The end of a pend that waited.  A reader that was posted takes the message
\* without looking at OSEventState.
PendReturnsTimeout(t) == LeaveByTimeout(t) /\ UNCHANGED mboxVars

PendReturnsOK(t) ==
  /\ LeaveByPost(t)
  /\ TakeMessage(pend[t])
  /\ UNCHANGED <<priorityVars, OSReadyList>>

OSMboxPendResume(t) == PendReturnsTimeout(t) \/ PendReturnsOK(t)

\* A post overwrites the message that is in the slot, read or not.
PutMessage(e, message) ==
  /\ OSEventState' = [OSEventState EXCEPT ![e] = TRUE]
  /\ OSEventPointer' = [OSEventPointer EXCEPT ![e] = message]

\* Mutant: the waiting reader is left asleep.
NobodyWaits_Unchecked(e) == UNCHANGED <<kernelVars, eventVars>>

NobodyWaits(e) == OSEventWait[e] = 0 /\ UNCHANGED <<kernelVars, eventVars>>

OSMboxPost(e, message) ==
  /\ OSEventAllocated[e]
  /\ PutMessage(e, message)
  /\ TaskPost(e) \/ NobodyWaits(e)

OSMboxPostISR(e, message) ==
  /\ OSEventAllocated[e]
  /\ PutMessage(e, message)
  /\ ISRPost(e) \/ NobodyWaits(e)

-----------------------------------------------------------------------------
MboxInit ==
  /\ EventInit
  /\ OSEventState = [e \in ObjectId |-> FALSE]
  /\ OSEventPointer = [e \in ObjectId |-> NULL]

TaskStep(t) ==
  /\ InUserCode(t)
  /\ \/ \E message \in Pointer : OSMboxCreate(message)
     \/ \E e \in ObjectId : OSMboxDelete(e)
     \/ \E e \in ObjectId, message \in Pointer : OSMboxPost(e, message)
     \/ \E e \in ObjectId, w \in PendWait : t \in Readers /\ OSMboxPend(t, e, w)
     \/ KernelCall(t) /\ UNCHANGED mboxVars

MboxInterrupt ==
  \/ \E e \in ObjectId, message \in Pointer : OSMboxPostISR(e, message)
  \/ KernelInterrupt /\ UNCHANGED mboxVars

MboxNext ==
  \/ \E t \in Task : TaskStep(t) \/ OSMboxPendResume(t)
  \/ MboxInterrupt

MboxSpec == MboxInit /\ [][MboxNext]_vars

-----------------------------------------------------------------------------
(* Properties *)

\* Mailboxes leave every priority as it was installed.
TopReader(t) ==
  t \in Readers /\ \A s \in Readers : InitPriority[s] <= InitPriority[t]

\* A reader that was posted takes the message without looking at OSEventState.
\* With several readers the highest of them still finds the message unread: the
\* context switch of the post, and of the interrupt, lets no lower reader come
\* first.  (A lower one may get a message that another reader already took.)
TopReaderHasMail ==
  \A t \in Task : TopReader(t) /\ given[t] => OSEventState[pend[t]]

\* "A task exits a pending state with a mailbox post": while a message is in
\* the slot, nobody waits for it unless a reader was woken and is still to run.
NoMailStranded ==
  \A e \in ObjectId :
    OSEventState[e] => \/ Waiters(e) = {}
                       \/ \E t \in Task : pend[t] = e /\ given[t]
=============================================================================
