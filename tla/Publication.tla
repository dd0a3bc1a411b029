---------------------------- MODULE Publication ----------------------------
(***************************************************************************)
(* What an upload promises to whoever browses the store, for one path and  *)
(* without chunks, workers or retries: the path shows either nothing or    *)
(* one content as a whole.  `shown` is what a listing shows now, `durable` *)
(* what it would show after the process is killed and started again, and   *)
(* `active` the contents somebody is uploading.                            *)
(*                                                                         *)
(* A content appears in one step, only while it is being uploaded, and     *)
(* only where nothing is shown; a shown content is never exchanged for     *)
(* another one without being hidden first.                                 *)
(***************************************************************************)
CONSTANTS
    Contents,   \* what can be uploaded to the path
    Nothing     \* the value of a path that shows nothing, not one of them

VARIABLES shown, durable, active

pubVars == <<shown, durable, active>>

Shown == Contents \cup {Nothing}

PubTypeOK ==
    /\ shown \in Shown
    /\ durable \in Shown
    /\ active \subseteq Contents

PubInit ==
    /\ shown = Nothing
    /\ durable = Nothing
    /\ active = {}

\* Somebody calls Upload, or a call returns or dies without publishing.
Begin(s) ==
    /\ active' = active \cup {s}
    /\ UNCHANGED <<shown, durable>>

End(A) ==
    /\ A \subseteq active
    /\ active' = active \ A
    /\ UNCHANGED <<shown, durable>>

\* The upload of s is over: s shows as a whole.  Writing it to disk may have
\* failed, in which case the call reports an error and `durable` stays.
Publish(s) ==
    /\ s \in active
    /\ shown = Nothing
    /\ shown' = s
    /\ durable' \in {s, durable}
    /\ active' = active \ {s}

\* A new upload of the path, or its removal, hides what was there.
Hide ==
    /\ shown' = Nothing
    /\ durable' \in {Nothing, durable}
    /\ active' \in SUBSET active

Persist ==
    /\ durable' = shown
    /\ UNCHANGED <<shown, active>>

\* The process ends and is started again from its storage file.
Recover ==
    /\ shown' = durable
    /\ active' = {}
    /\ UNCHANGED durable

PubNext ==
    \/ \E s \in Contents : Begin(s) \/ Publish(s)
    \/ \E A \in SUBSET Contents : End(A)
    \/ Hide
    \/ Persist
    \/ Recover

PubSpec == PubInit /\ [][PubNext]_pubVars
=============================================================================
