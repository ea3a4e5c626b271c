------------------------------ MODULE EventPolicy ------------------------------
(***************************************************************************)
(* How the event worker gets the rules for an event: a cache with a time   *)
(* to live, shared by the events that are judged at the same time and      *)
(* reloaded by one of them under a lock, while operators change the rules. *)
(* What the actions of matching rules do is in ActionExecution.            *)
(***************************************************************************)
EXTENDS Integers, Sequences

CONSTANTS
    Judges,     \* the events that are judged at the same time
    Ttl,        \* cache_ttl_seconds
    MaxEdits,   \* bound: changes of the rules
    MaxTime     \* bound: seconds

ASSUME PolicyAssumption == Ttl \in Nat \ {0} /\ MaxEdits \in Nat /\ MaxTime \in Nat

VARIABLES
    seconds,    \* the monotonic clock
    replaced,   \* when each former version of the rules was replaced
    cached,     \* _cached_rules, as their version, and _rules_expire_at
    rulesLock,  \* who holds it
    judges      \* the events

policyVars == <<seconds, replaced, cached, rulesLock, judges>>

Free == "free"

(* version: of the rules it got.  asked: when it asked for them.  read: the  *)
(* clock before the rules are listed.                                        *)
NotJudged == [pc |-> "idle", version |-> 0, asked |-> 0, read |-> 0]

JudgeState == [pc : {"idle", "locking", "listing", "loaded", "judging"},
               version : 0..MaxEdits + 1, asked : 0..MaxTime, read : 0..MaxTime]

PolicyTypeOK ==
    /\ seconds \in 0..MaxTime
    /\ replaced \in Seq(0..MaxTime) /\ Len(replaced) <= MaxEdits
    /\ cached \in [version : 0..MaxEdits + 1, expires : 0..MaxTime + Ttl]
    /\ rulesLock \in Judges \cup {Free}
    /\ judges \in [Judges -> JudgeState]

PolicyInit ==
    /\ seconds = 0
    /\ replaced = <<>>
    /\ cached = [version |-> 0, expires |-> 0]
    /\ rulesLock = Free
    /\ judges = [j \in Judges |-> NotJudged]

Current == Len(replaced) + 1

Second ==
    /\ seconds < MaxTime
    /\ seconds' = seconds + 1
    /\ UNCHANGED <<replaced, cached, rulesLock, judges>>

EditRules ==
    /\ Len(replaced) < MaxEdits
    /\ replaced' = Append(replaced, seconds)
    /\ UNCHANGED <<seconds, cached, rulesLock, judges>>
------------------------------------------------------------------------------
(* Variants of the definitions below that a slip in the code would give.     *)
BugExpiry(j) == seconds + Ttl
------------------------------------------------------------------------------
(* _active_rules                                                             *)
CacheHit == cached.version # 0 /\ seconds < cached.expires

Judging(j, version, asked) ==
    judges' = [judges EXCEPT ![j] = [pc |-> "judging", version |-> version,
                                     asked |-> asked, read |-> 0]]

AskRules(j) ==
    /\ judges[j].pc = "idle"
    /\ IF CacheHit
       THEN Judging(j, cached.version, seconds)
       ELSE judges' = [judges EXCEPT ![j].pc = "locking", ![j].asked = seconds]
    /\ UNCHANGED <<seconds, replaced, cached, rulesLock>>

(* Another event may have loaded the rules while this one waited.            *)
LockRules(j) ==
    /\ judges[j].pc = "locking"
    /\ rulesLock = Free
    /\ IF CacheHit
       THEN Judging(j, cached.version, judges[j].asked) /\ UNCHANGED rulesLock
       ELSE /\ rulesLock' = j
            /\ judges' = [judges EXCEPT ![j].pc = "listing", ![j].read = seconds]
    /\ UNCHANGED <<seconds, replaced, cached>>

(* MongoDB reads the rules; its answer takes some time.                      *)
ListRules(j) ==
    /\ judges[j].pc = "listing"
    /\ judges' = [judges EXCEPT ![j].pc = "loaded", ![j].version = Current]
    /\ UNCHANGED <<seconds, replaced, cached, rulesLock>>

Expiry(j) == judges[j].read + Ttl

KeepRules(j) ==
    /\ judges[j].pc = "loaded"
    /\ cached' = [version |-> judges[j].version, expires |-> Expiry(j)]
    /\ rulesLock' = Free
    /\ Judging(j, judges[j].version, judges[j].asked)
    /\ UNCHANGED <<seconds, replaced>>

(* MongoDB fails, or the rules are too many or invalid: the event is         *)
(* delivered again.                                                          *)
LoadFails(j) ==
    /\ judges[j].pc \in {"listing", "loaded"}
    /\ rulesLock' = Free
    /\ judges' = [judges EXCEPT ![j] = NotJudged]
    /\ UNCHANGED <<seconds, replaced, cached>>

(* The actions of the matching rules succeed, are skipped, or one fails.     *)
Judged(j) ==
    /\ judges[j].pc = "judging"
    /\ judges' = [judges EXCEPT ![j] = NotJudged]
    /\ UNCHANGED <<seconds, replaced, cached, rulesLock>>

PolicyNext ==
    \/ Second \/ EditRules
    \/ \E j \in Judges :
          AskRules(j) \/ LockRules(j) \/ ListRules(j) \/ KeepRules(j) \/ LoadFails(j) \/ Judged(j)

PolicySpec == PolicyInit /\ [][PolicyNext]_policyVars
------------------------------------------------------------------------------
(* The rules an event is judged by are current or were replaced less than    *)
(* the cache's time to live before the event asked for them, however long    *)
(* the lock and the load took (_active_rules).                               *)
RulesAreFresh ==
    \A j \in Judges :
       LET v == judges[j].version
       IN judges[j].pc = "judging" => v = Current \/ replaced[v] + Ttl > judges[j].asked
==============================================================================
