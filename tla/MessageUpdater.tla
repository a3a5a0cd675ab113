--------------------------- MODULE MessageUpdater --------------------------
(* The updater of an interaction's own message (createOriginalUpdater of     *)
(* interaction/message-updater.ts): it patches through the interaction's     *)
(* response_url while that has uses and time left, and through chat.update   *)
(* afterwards.  Ages are counted in the composing module's unit of time.     *)
EXTENDS Naturals

CONSTANTS
  MaxUses,  \* RESPONSE_URL_MAX_USES
  Ttl       \* RESPONSE_URL_TTL_MS

ASSUME UpdaterAssumption == MaxUses \in Nat /\ Ttl \in Nat

\* age is capped one beyond Ttl: older makes no difference.  ref says whether
\* cachedRef names the message.
Updaters == [uses : 0..MaxUses, age : 0..Ttl + 1, ref : BOOLEAN]

NewUpdater(ref) == [uses |-> 0, age |-> 0, ref |-> ref]

IsUrlAvailable(u) == u.uses < MaxUses /\ u.age <= Ttl

\* How a patch that is called now goes out; "none" is ResponseUrlExhaustedError.
Via(u) ==
  IF IsUrlAvailable(u) THEN "url"
  ELSE IF u.ref THEN "update" ELSE "none"

\* Mutant: acknowledged uses are not counted.
Uncounted(u, via, named) == IF via = "url" THEN [u EXCEPT !.ref = @ \/ named] ELSE u

\* A patch that went out by via was acknowledged; named says that the reply
\* names the message, which an updater without a ref keeps.
Acknowledged(u, via, named) ==
  IF via = "url" THEN [u EXCEPT !.uses = @ + 1, !.ref = @ \/ named] ELSE u

\* Mutant: nothing caps an age.
OlderUncapped(u) == [u EXCEPT !.age = @ + 1]

Older(u) == [u EXCEPT !.age = IF @ <= Ttl THEN @ + 1 ELSE @]
=============================================================================
