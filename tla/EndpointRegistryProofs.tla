------------------------ MODULE EndpointRegistryProofs ------------------------
(***************************************************************************)
(* Proofs about EndpointRegistry, for any entries, flows and capabilities: *)
(* there is one owner at the endpoint exactly while somebody holds it, no  *)
(* half-closed capability is forgotten, and an unload releases all that it *)
(* found.                                                                  *)
(***************************************************************************)
EXTENDS EndpointRegistry, TLAPS

USE DEF registryVars, ownerVars, madeVars, batchVars

-----------------------------------------------------------------------------
(* The invariant                                                           *)

Made(c) == recordOf[c] # "new"

\* A capability has an owner from its creation on.
MadeOwned == \A c \in Cap : own[c] # NoOne <=> Made(c)

\* What a process connects is there and is its own.
FreshMade ==
    \A p \in Proc :
        /\ pc[p] = "connecting" => fresh[p] # NoOne
        /\ fresh[p] # NoOne => Made(fresh[p])

\* Nobody knows a capability that has not been created.
MadeKnown ==
    /\ \A c \in failed : Made(c)
    /\ \A e \in Entry : \A c \in tracked[e] : Made(c)
    /\ \A p \in Proc : \A c \in batch[p] : Made(c)

\* A process has a batch only where it closes one, and the batch says where
\* each of its capabilities stands: still to be called, awaited, failed, gone.
BatchesWhole ==
    \A p \in Proc :
        /\ calls[p] \cup waits[p] \cup bad[p] \subseteq batch[p]
        /\ batch[p] # {} => pc[p] \in {"retrying", "closing", "cleaning"}
        /\ \A c \in batch[p] :
            c \in calls[p] \cup waits[p] \cup bad[p] \/ recordOf[c] = "gone"

\* A shutdown task has closed the admission, and ends well with the record gone.
TasksSeal ==
    \A c \in Cap :
        /\ task[c] # "none" => recordOf[c] \in {"closing", "gone"}
        /\ task[c] = "ok" => recordOf[c] = "gone"

\* What the polls of an entry hold is tracked until the entry is unloaded,
\* and, unless it came late, in the set that the unload closes.
PollsTracked ==
    \A e \in Entry :
        /\ pc[Unloader(e)] \in {"out", "retrying"} => pc[Poll(e)] = "idle"
        /\ \A c \in Cap : maker[c] = Poll(e) /\ Retained(c) =>
            /\ pc[Unloader(e)] \notin {"out", "retrying"}
            /\ pc[Unloader(e)] # "unloaded" => c \in tracked[e]
            /\ pc[Unloader(e)] = "closing" /\ c \notin late => c \in batch[Unloader(e)]

RegistryInv ==
    /\ OwnerRegistered
    /\ MadeOwned
    /\ FreshMade
    /\ MadeKnown
    /\ BatchesWhole
    /\ TasksSeal
    /\ ClosingRemembered
    /\ PollsTracked
    /\ UnloadReleases

-----------------------------------------------------------------------------
(* Lemmas                                                                  *)

\* The names of processes are apart: nothing else is known of them.
LEMMA ProcNames ==
    /\ \A e \in Entry : Unloader(e) \in Proc /\ Poll(e) \in Proc
    /\ \A f \in Flow : Discovery(f) \in Proc
    /\ \A e, d \in Entry : Unloader(e) # Poll(d)
    /\ \A e \in Entry, f \in Flow : Unloader(e) # Discovery(f) /\ Poll(e) # Discovery(f)
    /\ \A e, d \in Entry : Unloader(e) = Unloader(d) => e = d
    /\ \A e, d \in Entry : Poll(e) = Poll(d) => e = d
    BY DEF Proc, Unloader, Poll, Discovery

\* What a step may do to records: close those of S, or drop them.
Seals(S) ==
    /\ owner' = owner /\ own' = own
    /\ recordOf' \in [Cap -> {"new", "open", "closing", "gone"}]
    /\ state' \in [Cap -> {"open", "closing", "closed"}]
    /\ \A c \in Cap :
         recordOf'[c] = IF c \in S /\ Retained(c) THEN "closing" ELSE recordOf[c]
    /\ owner # NoOne => state'[owner] # "closed"

Drops(S) ==
    /\ own' = own
    /\ recordOf' \in [Cap -> {"new", "open", "closing", "gone"}]
    /\ \A c \in Cap :
         recordOf'[c] = IF c \in S /\ Retained(c) THEN "gone" ELSE recordOf[c]

\* begin_shutdown only closes records, under the owner that is registered.
LEMMA SealIs ==
    ASSUME OwnerRegistered, NEW S \in SUBSET Cap, Seal(S)
    PROVE  Seals(S)
<1> USE DEF OwnerRegistered, RegistryTypeOK, Retained, Seals
<1>1. /\ owner' = owner /\ own' = own
      /\ recordOf' = [c \in Cap |-> IF c \in S /\ Retained(c) THEN "closing" ELSE recordOf[c]]
      /\ state' = [o \in Cap |-> IF \E c \in S : Retained(c) /\ own[c] = o
                                    THEN Sealed(o, recordOf') ELSE state[o]]
    BY DEF Seal
<1>2. \A o \in Cap : Sealed(o, recordOf') \in {"closing", state[o]}
    BY DEF Sealed
<1> QED
    BY <1>1, <1>2

\* A removal drops records of one owner, and the owner leaves with its last.
LEMMA RemoveIs ==
    ASSUME OwnerRegistered, MadeOwned, NEW S \in SUBSET Cap,
           NEW o \in Cap \cup {NoOne}, Remove(S, o)
    PROVE  /\ own' = own
           /\ owner' \in Cap \cup {NoOne}
           /\ recordOf' \in [Cap -> {"new", "open", "closing", "gone"}]
           /\ state' \in [Cap -> {"open", "closing", "closed"}]
           /\ \A c \in Cap : recordOf'[c] =
                IF c \in S /\ own[c] = o /\ Retained(c) THEN "gone" ELSE recordOf[c]
           /\ owner' # NoOne => state'[owner'] # "closed"
           /\ \A c \in Cap : Retained(c)' => own'[c] = owner'
           /\ owner' # NoOne => \E c \in Cap : own'[c] = owner' /\ Retained(c)'
<1> USE DEF OwnerRegistered, RegistryTypeOK, Retained, Made, Of
<1> DEFINE left == {c \in Cap : own[c] = o /\ recordOf'[c] \in {"open", "closing"}}
<1>1. /\ own' = own
      /\ recordOf' = [c \in Cap |->
            IF c \in S /\ own[c] = o /\ Retained(c) THEN "gone" ELSE recordOf[c]]
      /\ state' = [state EXCEPT ![o] = StateAfter(o, recordOf')]
      /\ owner' = IF StateAfter(o, recordOf') = "closed" /\ owner = o THEN NoOne ELSE owner
    BY DEF Remove, Unregister
<1>2. /\ StateAfter(o, recordOf') \in {"open", "closing", "closed"}
      /\ StateAfter(o, recordOf') = "closed" <=> left = {}
    BY DEF StateAfter, Held
<1>3. \A c \in Cap : own[c] # o => recordOf'[c] = recordOf[c]
    BY <1>1
<1>4. owner # o => \A c \in Cap : recordOf'[c] = recordOf[c]
    BY <1>1
<1>5. \A c \in Cap : Retained(c)' => own'[c] = owner'
    BY <1>1, <1>2, <1>3
<1>6. owner' # NoOne => \E c \in Cap : own'[c] = owner' /\ Retained(c)'
    <2>1. CASE owner = o
        BY <2>1, <1>1, <1>2
    <2>2. CASE owner # o
        BY <2>2, <1>1, <1>4
    <2> QED
        BY <2>1, <2>2
<1>7. owner' # NoOne => state'[owner'] # "closed"
    BY <1>1, <1>2, NoOneAssumption
<1> HIDE DEF left
<1> QED
    BY <1>1, <1>2, <1>5, <1>6, <1>7

\* The end of a terminal close drops the record of its capability.
LEMMA TerminalOkIs ==
    ASSUME OwnerRegistered, MadeOwned, NEW c \in Cap, TerminalOk(c)
    PROVE  Drops({c})
<1>1. own[c] \in Cap \cup {NoOne} /\ {c} \in SUBSET Cap /\ Remove({c}, own[c])
    BY DEF TerminalOk, OwnerRegistered, RegistryTypeOK
<1> QED
    BY <1>1, RemoveIs DEF Drops

\* A forced release drops every record that the entry tracks.
LEMMA ForceReleaseIs ==
    ASSUME OwnerRegistered, MadeOwned, NEW e \in Entry, ForceRelease(e)
    PROVE  Drops(tracked[e])
<1> DEFINE S == {c \in tracked[e] : Retained(c)}
<1>1. S \in SUBSET Cap /\ owner \in Cap \cup {NoOne} /\ \A c \in S : own[c] = owner
    BY DEF OwnerRegistered, RegistryTypeOK
<1>2. CASE S = {}
    BY <1>2 DEF ForceRelease, OwnerRegistered, RegistryTypeOK, Drops
<1>3. CASE S # {}
    <2>1. Remove(S, owner)
        BY <1>3 DEF ForceRelease
    <2> QED
        BY <2>1, <1>1, RemoveIs DEF Drops
<1> QED
    BY <1>2, <1>3

\* A process discards one capability, which is there.
LEMMA DiscardIs ==
    ASSUME OwnerRegistered, FreshMade, NEW p \in Proc, Discard(p)
    PROVE  fresh[p] \in Cap /\ Made(fresh[p]) /\ Seals({fresh[p]})
<1>1. fresh[p] \in Cap /\ Made(fresh[p]) /\ Seal({fresh[p]})
    BY DEF Discard, StartBatch, OwnerRegistered, RegistryTypeOK, FreshMade
<1> QED
    BY <1>1, SealIs

-----------------------------------------------------------------------------
(* Every part is kept by every step                                        *)

\* What a step does to a record: it only advances.
Advances(c) ==
    /\ recordOf[c] # "new" => recordOf'[c] # "new"
    /\ recordOf[c] = "gone" => recordOf'[c] = "gone"

\* A record only advances, from its creation to its end.
LEMMA RecordsAdvance ==
    ASSUME OwnerRegistered, MadeOwned, FreshMade, [RegistryNext]_registryVars
    PROVE  \A d \in Cap : Advances(d)
<1> USE DEF OwnerRegistered, RegistryTypeOK, Retained, Advances
<1> USE ProcNames
<1>0. CASE UNCHANGED registryVars
    BY <1>0
<1>1. ASSUME NEW e \in Entry, Setup(e)
      PROVE  \A d \in Cap : Advances(d)
    BY <1>1, SealIs DEF Setup, StartBatch, Retryable, Seals
<1>2. ASSUME NEW e \in Entry, SetupRetried(e)
      PROVE  \A d \in Cap : Advances(d)
    BY <1>2 DEF SetupRetried, EndBatch, KeepFailed
<1>3. ASSUME NEW e \in Entry, Unload(e)
      PROVE  \A d \in Cap : Advances(d)
    BY <1>3, SealIs DEF Unload, Seals
<1>4. ASSUME NEW e \in Entry, CloseAll(e)
      PROVE  \A d \in Cap : Advances(d)
    BY <1>4, SealIs DEF CloseAll, StartBatch, ToClose, Seals
<1>5. ASSUME NEW e \in Entry, ClosedAll(e)
      PROVE  \A d \in Cap : Advances(d)
    BY <1>5 DEF ClosedAll, EndBatch, KeepFailed, Pruned
<1>6. ASSUME NEW e \in Entry, ForceRelease(e)
      PROVE  \A d \in Cap : Advances(d)
    <2>1. Drops(tracked[e])
        BY <1>6, ForceReleaseIs
    <2> QED
        BY <1>6, <2>1 DEF ForceRelease, Drops
<1>7. ASSUME NEW e \in Entry, BeginPoll(e)
      PROVE  \A d \in Cap : Advances(d)
    BY <1>7 DEF BeginPoll
<1>8. ASSUME NEW e \in Entry, EndPoll(e)
      PROVE  \A d \in Cap : Advances(d)
    BY <1>8 DEF EndPoll
<1>9. ASSUME NEW e \in Entry, NEW c \in Cap, PollCreates(e, c)
      PROVE  \A d \in Cap : Advances(d)
    BY <1>9 DEF PollCreates, Create, Admits
<1>10. ASSUME NEW e \in Entry, Adopt(e)
      PROVE  \A d \in Cap : Advances(d)
    BY <1>10 DEF Adopt
<1>11. ASSUME NEW p \in Proc, Discard(p)
      PROVE  \A d \in Cap : Advances(d)
    <2>1. fresh[p] \in Cap /\ Made(fresh[p]) /\ Seals({fresh[p]})
        BY <1>11, DiscardIs
    <2> QED
        BY <1>11, <2>1 DEF Discard, StartBatch, Seals
<1>12. ASSUME NEW e \in Entry, Discarded(e)
      PROVE  \A d \in Cap : Advances(d)
    BY <1>12 DEF Discarded, EndBatch, KeepFailed, Pruned
<1>13. ASSUME NEW f \in Flow, FlowRetry(f)
      PROVE  \A d \in Cap : Advances(d)
    BY <1>13, SealIs DEF FlowRetry, StartBatch, Retryable, Seals
<1>14. ASSUME NEW f \in Flow, NEW c \in Cap, FlowCreates(f, c)
      PROVE  \A d \in Cap : Advances(d)
    BY <1>14 DEF FlowCreates, Create, Admits, EndBatch, KeepFailed
<1>15. ASSUME NEW f \in Flow, FlowRefused(f)
      PROVE  \A d \in Cap : Advances(d)
    BY <1>15 DEF FlowRefused, EndBatch, KeepFailed
<1>16. ASSUME NEW f \in Flow, FlowOver(f)
      PROVE  \A d \in Cap : Advances(d)
    BY <1>16 DEF FlowOver, EndBatch, KeepFailed
<1>17. ASSUME NEW p \in Proc, NEW c \in Cap, AsyncShutdown(p, c)
      PROVE  \A d \in Cap : Advances(d)
    BY <1>17, SealIs DEF AsyncShutdown, Seals
<1>18. ASSUME NEW c \in Cap, ShutdownRuns(c)
      PROVE  \A d \in Cap : Advances(d)
    BY <1>18, SealIs DEF ShutdownRuns, Seals
<1>19. ASSUME NEW c \in Cap, TerminalOk(c)
      PROVE  \A d \in Cap : Advances(d)
    <2>1. Drops({c})
        BY <1>19, TerminalOkIs
    <2> QED
        BY <1>19, <2>1 DEF TerminalOk, Drops
<1>20. ASSUME NEW c \in Cap, TerminalFail(c)
      PROVE  \A d \in Cap : Advances(d)
    BY <1>20 DEF TerminalFail
<1>21. ASSUME NEW c \in Cap, Settle(c)
      PROVE  \A d \in Cap : Advances(d)
    BY <1>21 DEF Settle
<1> QED
    BY <1>0, <1>1, <1>2, <1>3, <1>4, <1>5, <1>6, <1>7, <1>8, <1>9, <1>10, <1>11,
       <1>12, <1>13, <1>14, <1>15, <1>16, <1>17, <1>18, <1>19, <1>20, <1>21 DEF
       RegistryNext, EntryStep, FlowStep, CapStep

\* Types.
LEMMA TypesKept ==
    ASSUME OwnerRegistered, MadeOwned, FreshMade, [RegistryNext]_registryVars
    PROVE  RegistryTypeOK'
<1> USE DEF OwnerRegistered, RegistryTypeOK, Retained, FreshMade
<1> USE ProcNames, NoOneAssumption
<1>0. CASE UNCHANGED registryVars
    BY <1>0
<1>1. ASSUME NEW e \in Entry, Setup(e)
      PROVE  RegistryTypeOK'
    BY <1>1, SealIs DEF Setup, StartBatch, Retryable, Seals
<1>2. ASSUME NEW e \in Entry, SetupRetried(e)
      PROVE  RegistryTypeOK'
    BY <1>2 DEF SetupRetried, EndBatch, KeepFailed
<1>3. ASSUME NEW e \in Entry, Unload(e)
      PROVE  RegistryTypeOK'
    BY <1>3, SealIs DEF Unload, Seals
<1>4. ASSUME NEW e \in Entry, CloseAll(e)
      PROVE  RegistryTypeOK'
    BY <1>4, SealIs DEF CloseAll, StartBatch, ToClose, Seals
<1>5. ASSUME NEW e \in Entry, ClosedAll(e)
      PROVE  RegistryTypeOK'
    BY <1>5 DEF ClosedAll, EndBatch, KeepFailed, Pruned
<1>6. ASSUME NEW e \in Entry, ForceRelease(e)
      PROVE  RegistryTypeOK'
    BY <1>6, RemoveIs DEF ForceRelease
<1>7. ASSUME NEW e \in Entry, BeginPoll(e)
      PROVE  RegistryTypeOK'
    BY <1>7 DEF BeginPoll
<1>8. ASSUME NEW e \in Entry, EndPoll(e)
      PROVE  RegistryTypeOK'
    BY <1>8 DEF EndPoll
<1>9. ASSUME NEW e \in Entry, NEW c \in Cap, PollCreates(e, c)
      PROVE  RegistryTypeOK'
    BY <1>9 DEF PollCreates, Create, Admits
<1>10. ASSUME NEW e \in Entry, Adopt(e)
      PROVE  RegistryTypeOK'
    BY <1>10 DEF Adopt
<1>11. ASSUME NEW p \in Proc, Discard(p)
      PROVE  RegistryTypeOK'
    BY <1>11, SealIs DEF Discard, StartBatch, Seals
<1>12. ASSUME NEW e \in Entry, Discarded(e)
      PROVE  RegistryTypeOK'
    BY <1>12 DEF Discarded, EndBatch, KeepFailed, Pruned
<1>13. ASSUME NEW f \in Flow, FlowRetry(f)
      PROVE  RegistryTypeOK'
    BY <1>13, SealIs DEF FlowRetry, StartBatch, Retryable, Seals
<1>14. ASSUME NEW f \in Flow, NEW c \in Cap, FlowCreates(f, c)
      PROVE  RegistryTypeOK'
    BY <1>14 DEF FlowCreates, Create, Admits, EndBatch, KeepFailed
<1>15. ASSUME NEW f \in Flow, FlowRefused(f)
      PROVE  RegistryTypeOK'
    BY <1>15 DEF FlowRefused, EndBatch, KeepFailed
<1>16. ASSUME NEW f \in Flow, FlowOver(f)
      PROVE  RegistryTypeOK'
    BY <1>16 DEF FlowOver, EndBatch, KeepFailed
<1>17. ASSUME NEW p \in Proc, NEW c \in Cap, AsyncShutdown(p, c)
      PROVE  RegistryTypeOK'
    BY <1>17, SealIs DEF AsyncShutdown, Seals
<1>18. ASSUME NEW c \in Cap, ShutdownRuns(c)
      PROVE  RegistryTypeOK'
    BY <1>18, SealIs DEF ShutdownRuns, Seals
<1>19. ASSUME NEW c \in Cap, TerminalOk(c)
      PROVE  RegistryTypeOK'
    BY <1>19, RemoveIs DEF TerminalOk
<1>20. ASSUME NEW c \in Cap, TerminalFail(c)
      PROVE  RegistryTypeOK'
    BY <1>20 DEF TerminalFail
<1>21. ASSUME NEW c \in Cap, Settle(c)
      PROVE  RegistryTypeOK'
    BY <1>21 DEF Settle
<1> QED
    BY <1>0, <1>1, <1>2, <1>3, <1>4, <1>5, <1>6, <1>7, <1>8, <1>9, <1>10, <1>11,
       <1>12, <1>13, <1>14, <1>15, <1>16, <1>17, <1>18, <1>19, <1>20, <1>21 DEF
       RegistryNext, EntryStep, FlowStep, CapStep

\* One owner, who is registered exactly while there are records.
LEMMA OwnerKept ==
    ASSUME OwnerRegistered, MadeOwned, FreshMade, [RegistryNext]_registryVars
    PROVE  OwnerRegistered'
<1> USE DEF OwnerRegistered, RegistryTypeOK, Retained, FreshMade, MadeOwned, Made, Of
<1> USE ProcNames, NoOneAssumption, TypesKept
<1>0. CASE UNCHANGED registryVars
    BY <1>0
<1>1. ASSUME NEW e \in Entry, Setup(e)
      PROVE  OwnerRegistered'
    BY <1>1, SealIs DEF Setup, StartBatch, Retryable, Seals
<1>2. ASSUME NEW e \in Entry, SetupRetried(e)
      PROVE  OwnerRegistered'
    BY <1>2 DEF SetupRetried, EndBatch, KeepFailed
<1>3. ASSUME NEW e \in Entry, Unload(e)
      PROVE  OwnerRegistered'
    BY <1>3, SealIs DEF Unload, Seals
<1>4. ASSUME NEW e \in Entry, CloseAll(e)
      PROVE  OwnerRegistered'
    BY <1>4, SealIs DEF CloseAll, StartBatch, ToClose, Seals
<1>5. ASSUME NEW e \in Entry, ClosedAll(e)
      PROVE  OwnerRegistered'
    BY <1>5 DEF ClosedAll, EndBatch, KeepFailed, Pruned
<1>6. ASSUME NEW e \in Entry, ForceRelease(e)
      PROVE  OwnerRegistered'
    BY <1>6, RemoveIs DEF ForceRelease
<1>7. ASSUME NEW e \in Entry, BeginPoll(e)
      PROVE  OwnerRegistered'
    BY <1>7 DEF BeginPoll
<1>8. ASSUME NEW e \in Entry, EndPoll(e)
      PROVE  OwnerRegistered'
    BY <1>8 DEF EndPoll
<1>9. ASSUME NEW e \in Entry, NEW c \in Cap, PollCreates(e, c)
      PROVE  OwnerRegistered'
    BY <1>9 DEF PollCreates, Create, Admits
<1>10. ASSUME NEW e \in Entry, Adopt(e)
      PROVE  OwnerRegistered'
    BY <1>10 DEF Adopt
<1>11. ASSUME NEW p \in Proc, Discard(p)
      PROVE  OwnerRegistered'
    BY <1>11, SealIs DEF Discard, StartBatch, Seals
<1>12. ASSUME NEW e \in Entry, Discarded(e)
      PROVE  OwnerRegistered'
    BY <1>12 DEF Discarded, EndBatch, KeepFailed, Pruned
<1>13. ASSUME NEW f \in Flow, FlowRetry(f)
      PROVE  OwnerRegistered'
    BY <1>13, SealIs DEF FlowRetry, StartBatch, Retryable, Seals
<1>14. ASSUME NEW f \in Flow, NEW c \in Cap, FlowCreates(f, c)
      PROVE  OwnerRegistered'
    BY <1>14 DEF FlowCreates, Create, Admits, EndBatch, KeepFailed
<1>15. ASSUME NEW f \in Flow, FlowRefused(f)
      PROVE  OwnerRegistered'
    BY <1>15 DEF FlowRefused, EndBatch, KeepFailed
<1>16. ASSUME NEW f \in Flow, FlowOver(f)
      PROVE  OwnerRegistered'
    BY <1>16 DEF FlowOver, EndBatch, KeepFailed
<1>17. ASSUME NEW p \in Proc, NEW c \in Cap, AsyncShutdown(p, c)
      PROVE  OwnerRegistered'
    BY <1>17, SealIs DEF AsyncShutdown, Seals
<1>18. ASSUME NEW c \in Cap, ShutdownRuns(c)
      PROVE  OwnerRegistered'
    BY <1>18, SealIs DEF ShutdownRuns, Seals
<1>19. ASSUME NEW c \in Cap, TerminalOk(c)
      PROVE  OwnerRegistered'
    <2>1. own[c] \in Cap \cup {NoOne} /\ {c} \in SUBSET Cap /\ Remove({c}, own[c])
        BY <1>19 DEF TerminalOk
    <2> QED
        BY <2>1, RemoveIs
<1>20. ASSUME NEW c \in Cap, TerminalFail(c)
      PROVE  OwnerRegistered'
    BY <1>20 DEF TerminalFail
<1>21. ASSUME NEW c \in Cap, Settle(c)
      PROVE  OwnerRegistered'
    BY <1>21 DEF Settle
<1> QED
    BY <1>0, <1>1, <1>2, <1>3, <1>4, <1>5, <1>6, <1>7, <1>8, <1>9, <1>10, <1>11,
       <1>12, <1>13, <1>14, <1>15, <1>16, <1>17, <1>18, <1>19, <1>20, <1>21 DEF
       RegistryNext, EntryStep, FlowStep, CapStep

\* Owners come with the record, and processes know what is made.
LEMMA MadeKept ==
    ASSUME OwnerRegistered, MadeOwned, FreshMade, MadeKnown, BatchesWhole, [RegistryNext]_registryVars
    PROVE  MadeOwned' /\ FreshMade' /\ MadeKnown'
<1> USE DEF OwnerRegistered, RegistryTypeOK, Retained, FreshMade, MadeOwned, Made, MadeKnown, BatchesWhole
<1> USE ProcNames, NoOneAssumption
<1>0. CASE UNCHANGED registryVars
    BY <1>0
<1>1. ASSUME NEW e \in Entry, Setup(e)
      PROVE  MadeOwned' /\ FreshMade' /\ MadeKnown'
    BY <1>1, SealIs DEF Setup, StartBatch, Retryable, Seals
<1>2. ASSUME NEW e \in Entry, SetupRetried(e)
      PROVE  MadeOwned' /\ FreshMade' /\ MadeKnown'
    BY <1>2 DEF SetupRetried, EndBatch, KeepFailed
<1>3. ASSUME NEW e \in Entry, Unload(e)
      PROVE  MadeOwned' /\ FreshMade' /\ MadeKnown'
    BY <1>3, SealIs DEF Unload, Seals
<1>4. ASSUME NEW e \in Entry, CloseAll(e)
      PROVE  MadeOwned' /\ FreshMade' /\ MadeKnown'
    BY <1>4, SealIs DEF CloseAll, StartBatch, ToClose, Seals
<1>5. ASSUME NEW e \in Entry, ClosedAll(e)
      PROVE  MadeOwned' /\ FreshMade' /\ MadeKnown'
    BY <1>5 DEF ClosedAll, EndBatch, KeepFailed, Pruned
<1>6. ASSUME NEW e \in Entry, ForceRelease(e)
      PROVE  MadeOwned' /\ FreshMade' /\ MadeKnown'
    <2>1. Drops(tracked[e])
        BY <1>6, ForceReleaseIs
    <2> QED
        BY <1>6, <2>1 DEF ForceRelease, Drops
<1>7. ASSUME NEW e \in Entry, BeginPoll(e)
      PROVE  MadeOwned' /\ FreshMade' /\ MadeKnown'
    BY <1>7 DEF BeginPoll
<1>8. ASSUME NEW e \in Entry, EndPoll(e)
      PROVE  MadeOwned' /\ FreshMade' /\ MadeKnown'
    BY <1>8 DEF EndPoll
<1>9. ASSUME NEW e \in Entry, NEW c \in Cap, PollCreates(e, c)
      PROVE  MadeOwned' /\ FreshMade' /\ MadeKnown'
    BY <1>9 DEF PollCreates, Create, Admits
<1>10. ASSUME NEW e \in Entry, Adopt(e)
      PROVE  MadeOwned' /\ FreshMade' /\ MadeKnown'
    BY <1>10 DEF Adopt
<1>11. ASSUME NEW p \in Proc, Discard(p)
      PROVE  MadeOwned' /\ FreshMade' /\ MadeKnown'
    <2>1. fresh[p] \in Cap /\ Made(fresh[p]) /\ Seals({fresh[p]})
        BY <1>11, DiscardIs
    <2> QED
        BY <1>11, <2>1 DEF Discard, StartBatch, Seals
<1>12. ASSUME NEW e \in Entry, Discarded(e)
      PROVE  MadeOwned' /\ FreshMade' /\ MadeKnown'
    BY <1>12 DEF Discarded, EndBatch, KeepFailed, Pruned
<1>13. ASSUME NEW f \in Flow, FlowRetry(f)
      PROVE  MadeOwned' /\ FreshMade' /\ MadeKnown'
    BY <1>13, SealIs DEF FlowRetry, StartBatch, Retryable, Seals
<1>14. ASSUME NEW f \in Flow, NEW c \in Cap, FlowCreates(f, c)
      PROVE  MadeOwned' /\ FreshMade' /\ MadeKnown'
    BY <1>14 DEF FlowCreates, Create, Admits, EndBatch, KeepFailed
<1>15. ASSUME NEW f \in Flow, FlowRefused(f)
      PROVE  MadeOwned' /\ FreshMade' /\ MadeKnown'
    BY <1>15 DEF FlowRefused, EndBatch, KeepFailed
<1>16. ASSUME NEW f \in Flow, FlowOver(f)
      PROVE  MadeOwned' /\ FreshMade' /\ MadeKnown'
    BY <1>16 DEF FlowOver, EndBatch, KeepFailed
<1>17. ASSUME NEW p \in Proc, NEW c \in Cap, AsyncShutdown(p, c)
      PROVE  MadeOwned' /\ FreshMade' /\ MadeKnown'
    BY <1>17, SealIs DEF AsyncShutdown, Seals
<1>18. ASSUME NEW c \in Cap, ShutdownRuns(c)
      PROVE  MadeOwned' /\ FreshMade' /\ MadeKnown'
    BY <1>18, SealIs DEF ShutdownRuns, Seals
<1>19. ASSUME NEW c \in Cap, TerminalOk(c)
      PROVE  MadeOwned' /\ FreshMade' /\ MadeKnown'
    <2>1. Drops({c})
        BY <1>19, TerminalOkIs
    <2> QED
        BY <1>19, <2>1 DEF TerminalOk, Drops
<1>20. ASSUME NEW c \in Cap, TerminalFail(c)
      PROVE  MadeOwned' /\ FreshMade' /\ MadeKnown'
    BY <1>20 DEF TerminalFail
<1>21. ASSUME NEW c \in Cap, Settle(c)
      PROVE  MadeOwned' /\ FreshMade' /\ MadeKnown'
    BY <1>21 DEF Settle
<1> QED
    BY <1>0, <1>1, <1>2, <1>3, <1>4, <1>5, <1>6, <1>7, <1>8, <1>9, <1>10, <1>11,
       <1>12, <1>13, <1>14, <1>15, <1>16, <1>17, <1>18, <1>19, <1>20, <1>21 DEF
       RegistryNext, EntryStep, FlowStep, CapStep

\* Batches.
LEMMA BatchesKept ==
    ASSUME OwnerRegistered, MadeOwned, FreshMade, MadeKnown, BatchesWhole, TasksSeal, [RegistryNext]_registryVars
    PROVE  BatchesWhole'
<1> USE DEF OwnerRegistered, RegistryTypeOK, BatchesWhole, TasksSeal, Advances
<1> USE ProcNames, RecordsAdvance
<1>0. CASE UNCHANGED registryVars
    BY <1>0
<1>1. ASSUME NEW e \in Entry, Setup(e)
      PROVE  BatchesWhole'
    BY <1>1, SealIs DEF Setup, StartBatch, Retryable, Seals
<1>2. ASSUME NEW e \in Entry, SetupRetried(e)
      PROVE  BatchesWhole'
    BY <1>2 DEF SetupRetried, EndBatch, KeepFailed
<1>3. ASSUME NEW e \in Entry, Unload(e)
      PROVE  BatchesWhole'
    BY <1>3, SealIs DEF Unload, Seals
<1>4. ASSUME NEW e \in Entry, CloseAll(e)
      PROVE  BatchesWhole'
    BY <1>4, SealIs DEF CloseAll, StartBatch, ToClose, Seals
<1>5. ASSUME NEW e \in Entry, ClosedAll(e)
      PROVE  BatchesWhole'
    BY <1>5 DEF ClosedAll, EndBatch, KeepFailed, Pruned
<1>6. ASSUME NEW e \in Entry, ForceRelease(e)
      PROVE  BatchesWhole'
    BY <1>6, RemoveIs DEF ForceRelease
<1>7. ASSUME NEW e \in Entry, BeginPoll(e)
      PROVE  BatchesWhole'
    BY <1>7 DEF BeginPoll
<1>8. ASSUME NEW e \in Entry, EndPoll(e)
      PROVE  BatchesWhole'
    BY <1>8 DEF EndPoll
<1>9. ASSUME NEW e \in Entry, NEW c \in Cap, PollCreates(e, c)
      PROVE  BatchesWhole'
    BY <1>9 DEF PollCreates, Create, Admits
<1>10. ASSUME NEW e \in Entry, Adopt(e)
      PROVE  BatchesWhole'
    BY <1>10 DEF Adopt
<1>11. ASSUME NEW p \in Proc, Discard(p)
      PROVE  BatchesWhole'
    BY <1>11, SealIs DEF Discard, StartBatch, Seals
<1>12. ASSUME NEW e \in Entry, Discarded(e)
      PROVE  BatchesWhole'
    BY <1>12 DEF Discarded, EndBatch, KeepFailed, Pruned
<1>13. ASSUME NEW f \in Flow, FlowRetry(f)
      PROVE  BatchesWhole'
    BY <1>13, SealIs DEF FlowRetry, StartBatch, Retryable, Seals
<1>14. ASSUME NEW f \in Flow, NEW c \in Cap, FlowCreates(f, c)
      PROVE  BatchesWhole'
    BY <1>14 DEF FlowCreates, Create, Admits, EndBatch, KeepFailed
<1>15. ASSUME NEW f \in Flow, FlowRefused(f)
      PROVE  BatchesWhole'
    BY <1>15 DEF FlowRefused, EndBatch, KeepFailed
<1>16. ASSUME NEW f \in Flow, FlowOver(f)
      PROVE  BatchesWhole'
    BY <1>16 DEF FlowOver, EndBatch, KeepFailed
<1>17. ASSUME NEW p \in Proc, NEW c \in Cap, AsyncShutdown(p, c)
      PROVE  BatchesWhole'
    BY <1>17, SealIs DEF AsyncShutdown, Seals
<1>18. ASSUME NEW c \in Cap, ShutdownRuns(c)
      PROVE  BatchesWhole'
    BY <1>18, SealIs DEF ShutdownRuns, Seals
<1>19. ASSUME NEW c \in Cap, TerminalOk(c)
      PROVE  BatchesWhole'
    BY <1>19, RemoveIs DEF TerminalOk
<1>20. ASSUME NEW c \in Cap, TerminalFail(c)
      PROVE  BatchesWhole'
    BY <1>20 DEF TerminalFail
<1>21. ASSUME NEW c \in Cap, Settle(c)
      PROVE  BatchesWhole'
    BY <1>21 DEF Settle
<1> QED
    BY <1>0, <1>1, <1>2, <1>3, <1>4, <1>5, <1>6, <1>7, <1>8, <1>9, <1>10, <1>11,
       <1>12, <1>13, <1>14, <1>15, <1>16, <1>17, <1>18, <1>19, <1>20, <1>21 DEF
       RegistryNext, EntryStep, FlowStep, CapStep

\* Shutdown tasks.
LEMMA TasksKept ==
    ASSUME OwnerRegistered, MadeOwned, FreshMade, MadeKnown, BatchesWhole, TasksSeal, [RegistryNext]_registryVars
    PROVE  TasksSeal'
<1> USE DEF OwnerRegistered, RegistryTypeOK, Retained, MadeOwned, Made, MadeKnown, BatchesWhole, TasksSeal
<1> USE ProcNames
<1>0. CASE UNCHANGED registryVars
    BY <1>0
<1>1. ASSUME NEW e \in Entry, Setup(e)
      PROVE  TasksSeal'
    BY <1>1, SealIs DEF Setup, StartBatch, Retryable, Seals
<1>2. ASSUME NEW e \in Entry, SetupRetried(e)
      PROVE  TasksSeal'
    BY <1>2 DEF SetupRetried, EndBatch, KeepFailed
<1>3. ASSUME NEW e \in Entry, Unload(e)
      PROVE  TasksSeal'
    BY <1>3, SealIs DEF Unload, Seals
<1>4. ASSUME NEW e \in Entry, CloseAll(e)
      PROVE  TasksSeal'
    BY <1>4, SealIs DEF CloseAll, StartBatch, ToClose, Seals
<1>5. ASSUME NEW e \in Entry, ClosedAll(e)
      PROVE  TasksSeal'
    BY <1>5 DEF ClosedAll, EndBatch, KeepFailed, Pruned
<1>6. ASSUME NEW e \in Entry, ForceRelease(e)
      PROVE  TasksSeal'
    <2>1. Drops(tracked[e])
        BY <1>6, ForceReleaseIs
    <2> QED
        BY <1>6, <2>1 DEF ForceRelease, Drops
<1>7. ASSUME NEW e \in Entry, BeginPoll(e)
      PROVE  TasksSeal'
    BY <1>7 DEF BeginPoll
<1>8. ASSUME NEW e \in Entry, EndPoll(e)
      PROVE  TasksSeal'
    BY <1>8 DEF EndPoll
<1>9. ASSUME NEW e \in Entry, NEW c \in Cap, PollCreates(e, c)
      PROVE  TasksSeal'
    BY <1>9 DEF PollCreates, Create, Admits
<1>10. ASSUME NEW e \in Entry, Adopt(e)
      PROVE  TasksSeal'
    BY <1>10 DEF Adopt
<1>11. ASSUME NEW p \in Proc, Discard(p)
      PROVE  TasksSeal'
    <2>1. fresh[p] \in Cap /\ Made(fresh[p]) /\ Seals({fresh[p]})
        BY <1>11, DiscardIs
    <2> QED
        BY <1>11, <2>1 DEF Discard, StartBatch, Seals
<1>12. ASSUME NEW e \in Entry, Discarded(e)
      PROVE  TasksSeal'
    BY <1>12 DEF Discarded, EndBatch, KeepFailed, Pruned
<1>13. ASSUME NEW f \in Flow, FlowRetry(f)
      PROVE  TasksSeal'
    BY <1>13, SealIs DEF FlowRetry, StartBatch, Retryable, Seals
<1>14. ASSUME NEW f \in Flow, NEW c \in Cap, FlowCreates(f, c)
      PROVE  TasksSeal'
    BY <1>14 DEF FlowCreates, Create, Admits, EndBatch, KeepFailed
<1>15. ASSUME NEW f \in Flow, FlowRefused(f)
      PROVE  TasksSeal'
    BY <1>15 DEF FlowRefused, EndBatch, KeepFailed
<1>16. ASSUME NEW f \in Flow, FlowOver(f)
      PROVE  TasksSeal'
    BY <1>16 DEF FlowOver, EndBatch, KeepFailed
<1>17. ASSUME NEW p \in Proc, NEW c \in Cap, AsyncShutdown(p, c)
      PROVE  TasksSeal'
    BY <1>17, SealIs DEF AsyncShutdown, Seals
<1>18. ASSUME NEW c \in Cap, ShutdownRuns(c)
      PROVE  TasksSeal'
    BY <1>18, SealIs DEF ShutdownRuns, Seals
<1>19. ASSUME NEW c \in Cap, TerminalOk(c)
      PROVE  TasksSeal'
    <2>1. Drops({c})
        BY <1>19, TerminalOkIs
    <2> QED
        BY <1>19, <2>1 DEF TerminalOk, Drops
<1>20. ASSUME NEW c \in Cap, TerminalFail(c)
      PROVE  TasksSeal'
    BY <1>20 DEF TerminalFail
<1>21. ASSUME NEW c \in Cap, Settle(c)
      PROVE  TasksSeal'
    BY <1>21 DEF Settle
<1> QED
    BY <1>0, <1>1, <1>2, <1>3, <1>4, <1>5, <1>6, <1>7, <1>8, <1>9, <1>10, <1>11,
       <1>12, <1>13, <1>14, <1>15, <1>16, <1>17, <1>18, <1>19, <1>20, <1>21 DEF
       RegistryNext, EntryStep, FlowStep, CapStep

\* Somebody knows of each half-closed capability.
LEMMA ClosingKept ==
    ASSUME OwnerRegistered, MadeOwned, FreshMade, MadeKnown, BatchesWhole, TasksSeal, ClosingRemembered, [RegistryNext]_registryVars
    PROVE  ClosingRemembered'
<1> USE DEF OwnerRegistered, RegistryTypeOK, Retained, Made, MadeKnown, BatchesWhole, TasksSeal, ClosingRemembered
<1> USE ProcNames
<1>0. CASE UNCHANGED registryVars
    BY <1>0
<1>1. ASSUME NEW e \in Entry, Setup(e)
      PROVE  ClosingRemembered'
    BY <1>1, SealIs DEF Setup, StartBatch, Retryable, Seals
<1>2. ASSUME NEW e \in Entry, SetupRetried(e)
      PROVE  ClosingRemembered'
    BY <1>2 DEF SetupRetried, EndBatch, KeepFailed
<1>3. ASSUME NEW e \in Entry, Unload(e)
      PROVE  ClosingRemembered'
    BY <1>3, SealIs DEF Unload, Seals
<1>4. ASSUME NEW e \in Entry, CloseAll(e)
      PROVE  ClosingRemembered'
    BY <1>4, SealIs DEF CloseAll, StartBatch, ToClose, Seals
<1>5. ASSUME NEW e \in Entry, ClosedAll(e)
      PROVE  ClosingRemembered'
    BY <1>5 DEF ClosedAll, EndBatch, KeepFailed, Pruned
<1>6. ASSUME NEW e \in Entry, ForceRelease(e)
      PROVE  ClosingRemembered'
    <2> SUFFICES ASSUME NEW c \in Cap, recordOf'[c] = "closing"
                 PROVE  \/ c \in failed'
                        \/ \E p \in Proc : c \in batch'[p]
                        \/ \E d \in Entry : pc'[Unloader(d)] = "detaching" /\ c \in tracked'[d]
        OBVIOUS
    <2>1. Drops(tracked[e])
        BY <1>6, ForceReleaseIs
    <2>2. c \notin tracked[e] /\ recordOf[c] = "closing"
        BY <2>1 DEF Drops
    <2>3. CASE c \in failed
        BY <1>6, <2>2, <2>3 DEF ForceRelease
    <2>4. CASE \E p \in Proc : c \in batch[p]
        BY <1>6, <2>4 DEF ForceRelease
    <2>5. ASSUME NEW d \in Entry, pc[Unloader(d)] = "detaching", c \in tracked[d]
          PROVE  pc'[Unloader(d)] = "detaching" /\ c \in tracked'[d]
        BY <1>6, <2>2, <2>5 DEF ForceRelease
    <2> QED
        BY <2>2, <2>3, <2>4, <2>5
<1>7. ASSUME NEW e \in Entry, BeginPoll(e)
      PROVE  ClosingRemembered'
    BY <1>7 DEF BeginPoll
<1>8. ASSUME NEW e \in Entry, EndPoll(e)
      PROVE  ClosingRemembered'
    BY <1>8 DEF EndPoll
<1>9. ASSUME NEW e \in Entry, NEW c \in Cap, PollCreates(e, c)
      PROVE  ClosingRemembered'
    BY <1>9 DEF PollCreates, Create, Admits
<1>10. ASSUME NEW e \in Entry, Adopt(e)
      PROVE  ClosingRemembered'
    BY <1>10 DEF Adopt
<1>11. ASSUME NEW p \in Proc, Discard(p)
      PROVE  ClosingRemembered'
    <2>1. fresh[p] \in Cap /\ Made(fresh[p]) /\ Seals({fresh[p]})
        BY <1>11, DiscardIs
    <2> QED
        BY <1>11, <2>1 DEF Discard, StartBatch, Seals
<1>12. ASSUME NEW e \in Entry, Discarded(e)
      PROVE  ClosingRemembered'
    BY <1>12 DEF Discarded, EndBatch, KeepFailed, Pruned
<1>13. ASSUME NEW f \in Flow, FlowRetry(f)
      PROVE  ClosingRemembered'
    BY <1>13, SealIs DEF FlowRetry, StartBatch, Retryable, Seals
<1>14. ASSUME NEW f \in Flow, NEW c \in Cap, FlowCreates(f, c)
      PROVE  ClosingRemembered'
    BY <1>14 DEF FlowCreates, Create, Admits, EndBatch, KeepFailed
<1>15. ASSUME NEW f \in Flow, FlowRefused(f)
      PROVE  ClosingRemembered'
    BY <1>15 DEF FlowRefused, EndBatch, KeepFailed
<1>16. ASSUME NEW f \in Flow, FlowOver(f)
      PROVE  ClosingRemembered'
    BY <1>16 DEF FlowOver, EndBatch, KeepFailed
<1>17. ASSUME NEW p \in Proc, NEW c \in Cap, AsyncShutdown(p, c)
      PROVE  ClosingRemembered'
    BY <1>17, SealIs DEF AsyncShutdown, Seals
<1>18. ASSUME NEW c \in Cap, ShutdownRuns(c)
      PROVE  ClosingRemembered'
    BY <1>18, SealIs DEF ShutdownRuns, Seals
<1>19. ASSUME NEW c \in Cap, TerminalOk(c)
      PROVE  ClosingRemembered'
    <2>1. Drops({c})
        BY <1>19, TerminalOkIs
    <2> QED
        BY <1>19, <2>1 DEF TerminalOk, Drops
<1>20. ASSUME NEW c \in Cap, TerminalFail(c)
      PROVE  ClosingRemembered'
    BY <1>20 DEF TerminalFail
<1>21. ASSUME NEW c \in Cap, Settle(c)
      PROVE  ClosingRemembered'
    BY <1>21 DEF Settle
<1> QED
    BY <1>0, <1>1, <1>2, <1>3, <1>4, <1>5, <1>6, <1>7, <1>8, <1>9, <1>10, <1>11,
       <1>12, <1>13, <1>14, <1>15, <1>16, <1>17, <1>18, <1>19, <1>20, <1>21 DEF
       RegistryNext, EntryStep, FlowStep, CapStep

\* What the polls of an entry hold is tracked.
LEMMA TrackedKept ==
    ASSUME OwnerRegistered, MadeOwned, FreshMade, BatchesWhole, PollsTracked, [RegistryNext]_registryVars
    PROVE  PollsTracked'
<1> USE DEF OwnerRegistered, RegistryTypeOK, Retained, BatchesWhole, PollsTracked
<1> USE ProcNames
<1>0. CASE UNCHANGED registryVars
    BY <1>0
<1>1. ASSUME NEW e \in Entry, Setup(e)
      PROVE  PollsTracked'
    BY <1>1, SealIs DEF Setup, StartBatch, Retryable, Seals
<1>2. ASSUME NEW e \in Entry, SetupRetried(e)
      PROVE  PollsTracked'
    BY <1>2 DEF SetupRetried, EndBatch, KeepFailed
<1>3. ASSUME NEW e \in Entry, Unload(e)
      PROVE  PollsTracked'
    BY <1>3, SealIs DEF Unload, Seals
<1>4. ASSUME NEW e \in Entry, CloseAll(e)
      PROVE  PollsTracked'
    BY <1>4, SealIs DEF CloseAll, StartBatch, ToClose, Seals
<1>5. ASSUME NEW e \in Entry, ClosedAll(e)
      PROVE  PollsTracked'
    BY <1>5 DEF ClosedAll, EndBatch, KeepFailed, Pruned
<1>6. ASSUME NEW e \in Entry, ForceRelease(e)
      PROVE  PollsTracked'
    <2>1. Drops(tracked[e])
        BY <1>6, ForceReleaseIs
    <2> QED
        BY <1>6, <2>1 DEF ForceRelease, Drops
<1>7. ASSUME NEW e \in Entry, BeginPoll(e)
      PROVE  PollsTracked'
    BY <1>7 DEF BeginPoll
<1>8. ASSUME NEW e \in Entry, EndPoll(e)
      PROVE  PollsTracked'
    BY <1>8 DEF EndPoll
<1>9. ASSUME NEW e \in Entry, NEW c \in Cap, PollCreates(e, c)
      PROVE  PollsTracked'
    BY <1>9 DEF PollCreates, Create, Admits
<1>10. ASSUME NEW e \in Entry, Adopt(e)
      PROVE  PollsTracked'
    BY <1>10 DEF Adopt
<1>11. ASSUME NEW p \in Proc, Discard(p)
      PROVE  PollsTracked'
    <2>1. fresh[p] \in Cap /\ Made(fresh[p]) /\ Seals({fresh[p]})
        BY <1>11, DiscardIs
    <2> QED
        BY <1>11, <2>1 DEF Discard, StartBatch, Seals
<1>12. ASSUME NEW e \in Entry, Discarded(e)
      PROVE  PollsTracked'
    BY <1>12 DEF Discarded, EndBatch, KeepFailed, Pruned
<1>13. ASSUME NEW f \in Flow, FlowRetry(f)
      PROVE  PollsTracked'
    BY <1>13, SealIs DEF FlowRetry, StartBatch, Retryable, Seals
<1>14. ASSUME NEW f \in Flow, NEW c \in Cap, FlowCreates(f, c)
      PROVE  PollsTracked'
    BY <1>14 DEF FlowCreates, Create, Admits, EndBatch, KeepFailed
<1>15. ASSUME NEW f \in Flow, FlowRefused(f)
      PROVE  PollsTracked'
    BY <1>15 DEF FlowRefused, EndBatch, KeepFailed
<1>16. ASSUME NEW f \in Flow, FlowOver(f)
      PROVE  PollsTracked'
    BY <1>16 DEF FlowOver, EndBatch, KeepFailed
<1>17. ASSUME NEW p \in Proc, NEW c \in Cap, AsyncShutdown(p, c)
      PROVE  PollsTracked'
    BY <1>17, SealIs DEF AsyncShutdown, Seals
<1>18. ASSUME NEW c \in Cap, ShutdownRuns(c)
      PROVE  PollsTracked'
    BY <1>18, SealIs DEF ShutdownRuns, Seals
<1>19. ASSUME NEW c \in Cap, TerminalOk(c)
      PROVE  PollsTracked'
    <2>1. Drops({c})
        BY <1>19, TerminalOkIs
    <2> QED
        BY <1>19, <2>1 DEF TerminalOk, Drops
<1>20. ASSUME NEW c \in Cap, TerminalFail(c)
      PROVE  PollsTracked'
    BY <1>20 DEF TerminalFail
<1>21. ASSUME NEW c \in Cap, Settle(c)
      PROVE  PollsTracked'
    BY <1>21 DEF Settle
<1> QED
    BY <1>0, <1>1, <1>2, <1>3, <1>4, <1>5, <1>6, <1>7, <1>8, <1>9, <1>10, <1>11,
       <1>12, <1>13, <1>14, <1>15, <1>16, <1>17, <1>18, <1>19, <1>20, <1>21 DEF
       RegistryNext, EntryStep, FlowStep, CapStep

\* What an unload has released.
LEMMA ReleasesKept ==
    ASSUME OwnerRegistered, MadeOwned, FreshMade, BatchesWhole, PollsTracked, UnloadReleases, [RegistryNext]_registryVars
    PROVE  UnloadReleases'
<1> USE DEF OwnerRegistered, RegistryTypeOK, Retained, BatchesWhole, PollsTracked, UnloadReleases
<1> USE ProcNames
<1>0. CASE UNCHANGED registryVars
    BY <1>0
<1>1. ASSUME NEW e \in Entry, Setup(e)
      PROVE  UnloadReleases'
    BY <1>1, SealIs DEF Setup, StartBatch, Retryable, Seals
<1>2. ASSUME NEW e \in Entry, SetupRetried(e)
      PROVE  UnloadReleases'
    BY <1>2 DEF SetupRetried, EndBatch, KeepFailed
<1>3. ASSUME NEW e \in Entry, Unload(e)
      PROVE  UnloadReleases'
    BY <1>3, SealIs DEF Unload, Seals
<1>4. ASSUME NEW e \in Entry, CloseAll(e)
      PROVE  UnloadReleases'
    BY <1>4, SealIs DEF CloseAll, StartBatch, ToClose, Seals
<1>5. ASSUME NEW e \in Entry, ClosedAll(e)
      PROVE  UnloadReleases'
    BY <1>5 DEF ClosedAll, EndBatch, KeepFailed, Pruned
<1>6. ASSUME NEW e \in Entry, ForceRelease(e)
      PROVE  UnloadReleases'
    <2>1. Drops(tracked[e])
        BY <1>6, ForceReleaseIs
    <2> QED
        BY <1>6, <2>1 DEF ForceRelease, Drops
<1>7. ASSUME NEW e \in Entry, BeginPoll(e)
      PROVE  UnloadReleases'
    BY <1>7 DEF BeginPoll
<1>8. ASSUME NEW e \in Entry, EndPoll(e)
      PROVE  UnloadReleases'
    BY <1>8 DEF EndPoll
<1>9. ASSUME NEW e \in Entry, NEW c \in Cap, PollCreates(e, c)
      PROVE  UnloadReleases'
    BY <1>9 DEF PollCreates, Create, Admits
<1>10. ASSUME NEW e \in Entry, Adopt(e)
      PROVE  UnloadReleases'
    BY <1>10 DEF Adopt
<1>11. ASSUME NEW p \in Proc, Discard(p)
      PROVE  UnloadReleases'
    <2>1. fresh[p] \in Cap /\ Made(fresh[p]) /\ Seals({fresh[p]})
        BY <1>11, DiscardIs
    <2> QED
        BY <1>11, <2>1 DEF Discard, StartBatch, Seals
<1>12. ASSUME NEW e \in Entry, Discarded(e)
      PROVE  UnloadReleases'
    BY <1>12 DEF Discarded, EndBatch, KeepFailed, Pruned
<1>13. ASSUME NEW f \in Flow, FlowRetry(f)
      PROVE  UnloadReleases'
    BY <1>13, SealIs DEF FlowRetry, StartBatch, Retryable, Seals
<1>14. ASSUME NEW f \in Flow, NEW c \in Cap, FlowCreates(f, c)
      PROVE  UnloadReleases'
    BY <1>14 DEF FlowCreates, Create, Admits, EndBatch, KeepFailed
<1>15. ASSUME NEW f \in Flow, FlowRefused(f)
      PROVE  UnloadReleases'
    BY <1>15 DEF FlowRefused, EndBatch, KeepFailed
<1>16. ASSUME NEW f \in Flow, FlowOver(f)
      PROVE  UnloadReleases'
    BY <1>16 DEF FlowOver, EndBatch, KeepFailed
<1>17. ASSUME NEW p \in Proc, NEW c \in Cap, AsyncShutdown(p, c)
      PROVE  UnloadReleases'
    BY <1>17, SealIs DEF AsyncShutdown, Seals
<1>18. ASSUME NEW c \in Cap, ShutdownRuns(c)
      PROVE  UnloadReleases'
    BY <1>18, SealIs DEF ShutdownRuns, Seals
<1>19. ASSUME NEW c \in Cap, TerminalOk(c)
      PROVE  UnloadReleases'
    <2>1. Drops({c})
        BY <1>19, TerminalOkIs
    <2> QED
        BY <1>19, <2>1 DEF TerminalOk, Drops
<1>20. ASSUME NEW c \in Cap, TerminalFail(c)
      PROVE  UnloadReleases'
    BY <1>20 DEF TerminalFail
<1>21. ASSUME NEW c \in Cap, Settle(c)
      PROVE  UnloadReleases'
    BY <1>21 DEF Settle
<1> QED
    BY <1>0, <1>1, <1>2, <1>3, <1>4, <1>5, <1>6, <1>7, <1>8, <1>9, <1>10, <1>11,
       <1>12, <1>13, <1>14, <1>15, <1>16, <1>17, <1>18, <1>19, <1>20, <1>21 DEF
       RegistryNext, EntryStep, FlowStep, CapStep

-----------------------------------------------------------------------------
(* Theorems                                                                *)

LEMMA RegistryStarts ==
    RegistryInit => RegistryInv
<1> SUFFICES ASSUME RegistryInit PROVE RegistryInv
    OBVIOUS
<1>1. \A e \in Entry : pc[Unloader(e)] = "out" /\ pc[Poll(e)] = "idle"
    BY ProcNames DEF RegistryInit, Unloader, Poll
<1>2. \A p \in Proc : pc[p] \in {"out", "idle"}
    BY DEF RegistryInit
<1>3. RegistryTypeOK
    BY DEF RegistryInit, RegistryTypeOK
<1> QED
    BY <1>1, <1>2, <1>3 DEF RegistryInit, RegistryInv, OwnerRegistered, Retained, MadeOwned,
       Made, FreshMade, MadeKnown, BatchesWhole, TasksSeal, ClosingRemembered, PollsTracked,
       UnloadReleases

LEMMA RegistryAlways ==
    RegistrySpec => []RegistryInv
<1>1. RegistryInv /\ [RegistryNext]_registryVars => RegistryInv'
    BY OwnerKept, MadeKept, BatchesKept, TasksKept, ClosingKept, TrackedKept, ReleasesKept
       DEF RegistryInv
<1> QED
    BY <1>1, RegistryStarts, PTL DEF RegistrySpec

\* The registry knows the endpoint exactly while somebody holds a capability of
\* it, all under the one owner that is registered (and every variable keeps its
\* type), for any number of entries, flows and capabilities.
THEOREM OneOwnerAlways ==
    RegistrySpec => []OwnerRegistered
<1>1. RegistryInv => OwnerRegistered
    BY DEF RegistryInv
<1> QED
    BY <1>1, RegistryAlways, PTL

\* A capability that is closed to admission is always being closed, or kept for
\* the next retry.
THEOREM ClosingNeverForgotten ==
    RegistrySpec => []ClosingRemembered
<1>1. RegistryInv => ClosingRemembered
    BY DEF RegistryInv
<1> QED
    BY <1>1, RegistryAlways, PTL

\* An unloaded entry has left nothing of what it had when it took the set to
\* close, whoever was closing it besides.
THEOREM UnloadAlwaysReleases ==
    RegistrySpec => []UnloadReleases
<1>1. RegistryInv => UnloadReleases
    BY DEF RegistryInv
<1> QED
    BY <1>1, RegistryAlways, PTL

=============================================================================
