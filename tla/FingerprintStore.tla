-------------------------- MODULE FingerprintStore --------------------------
(***************************************************************************)
(* What internal/repo/downloads.go promises its callers about fingerprints *)
(* (the comment on DownloadWriter.AddWithFingerprint): a download is       *)
(* stored under one fingerprint, no fingerprint is held by two downloads,  *)
(* a second request for a fingerprint gets the first one's download, and   *)
(* an id is never given to a second download.  There is no index here: the *)
(* store searches its downloads.                                           *)
(***************************************************************************)
CONSTANTS Ids, Fingerprints, NoKey      \* NoKey is no fingerprint

VARIABLES
    key,     \* the fingerprint each id is stored under, or NoKey
    used,    \* the ids given out so far
    reply    \* <<outcome, id>> of the last call

vars == <<key, used, reply>>

Free(f) == \A i \in Ids : key[i] # f

Init ==
    /\ key = [i \in Ids |-> NoKey]
    /\ used = {}
    /\ reply = <<"none">>

Create(f, id) ==
    /\ Free(f)
    /\ id \notin used
    /\ key' = [key EXCEPT ![id] = f]
    /\ used' = used \cup {id}
    /\ reply' = <<"created", id>>

Hit(f, id) ==
    /\ key[id] = f
    /\ reply' = <<"existing", id>>
    /\ UNCHANGED <<key, used>>

\* An update keeps the fingerprint, or takes one nobody else holds.
Rekey(f, id) ==
    /\ key[id] # NoKey
    /\ \A other \in Ids \ {id} : key[other] # f
    /\ key' = [key EXCEPT ![id] = f]
    /\ reply' = <<"ok", id>>
    /\ UNCHANGED used

Conflict(f, id) ==
    /\ key[id] # NoKey
    /\ \E other \in Ids \ {id} : key[other] = f
    /\ reply' = <<"conflict", id>>
    /\ UNCHANGED <<key, used>>

Release(id) ==
    /\ key[id] # NoKey
    /\ key' = [key EXCEPT ![id] = NoKey]
    /\ reply' = <<"deleted", id>>
    /\ UNCHANGED used

Miss(id) ==
    /\ key[id] = NoKey
    /\ reply' = <<"notFound", id>>
    /\ UNCHANGED <<key, used>>

Found(id) ==
    /\ key[id] # NoKey
    /\ reply' = <<"found", id>>
    /\ UNCHANGED <<key, used>>

Next ==
    \E id \in Ids :
        \/ Release(id)
        \/ Miss(id)
        \/ Found(id)
        \/ \E f \in Fingerprints :
             Create(f, id) \/ Hit(f, id) \/ Rekey(f, id) \/ Conflict(f, id)

Spec == Init /\ [][Next]_vars
=============================================================================
