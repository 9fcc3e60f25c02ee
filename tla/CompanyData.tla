----------------------------- MODULE CompanyData -----------------------------
(***************************************************************************)
(* useCompanyData.ts: the companies, the colleagues and the appointments   *)
(* of the user, loaded when App mounts, again when the login brings a      *)
(* token, and again on request.  Nothing cancels a load or tells an old    *)
(* answer from a new one, so loads may overlap and end in any order.       *)
(***************************************************************************)
EXTENDS Naturals

CONSTANTS Invites,      \* the appointments somebody invited the user to
          MaxLoads      \* bound: loads in one behaviour

ASSUME CompanyAssumption == MaxLoads \in Nat \ {0}

VARIABLES
  loads,          \* the loads that have not ended, each with its token
  started,        \* how many were started, which names them
  token,          \* user?.token: is anybody logged in
  companies,      \* the load whose answer companies holds, 0 for []
  appointments,   \* personalAppointments: the rsvp of each invite
  isLoading,
  loadError

companyVars == <<loads, started, token, companies, appointments, isLoading, loadError>>

(* "null": the database has no answer and mapPersonalAppointment makes     *)
(* rsvp undefined; "absent": the list has no such appointment.             *)
Rsvps == {"null", "pending", "accepted", "declined"}
Agendas == [Invites -> Rsvps \cup {"absent"}]
NoAgenda == [i \in Invites |-> "absent"]

(* The first effect has started the first load, without a token.           *)
CompanyInit ==
  /\ loads = {[n |-> 1, token |-> FALSE]}
  /\ started = 1
  /\ token = FALSE
  /\ companies = 0
  /\ appointments = NoAgenda
  /\ isLoading = TRUE
  /\ loadError = FALSE

(* reload with the token the hook was rendered with.                       *)
StartLoad(tok) ==
  /\ started < MaxLoads
  /\ started' = started + 1
  /\ loads' = loads \cup {[n |-> started', token |-> tok]}
  /\ isLoading' = TRUE
  /\ loadError' = FALSE
  /\ UNCHANGED <<companies, appointments>>

(* The login: reload is a new function and the effect calls it.            *)
TokenArrives ==
  /\ ~token
  /\ token' = TRUE
  /\ StartLoad(TRUE)

(* The retry button, shown beside an error while nothing loads.            *)
RetryShown == ~isLoading /\ loadError
Retry ==
  /\ RetryShown
  /\ StartLoad(token)
  /\ UNCHANGED token

(* The three lists come together and replace the old ones in one render.   *)
SetLists(load, agenda) ==
  /\ companies' = load.n
  /\ appointments' = agenda

(* All three requests of a load were answered; the server answers only     *)
(* with a token.                                                           *)
LoadSucceeds(load, agenda) ==
  /\ load \in loads /\ load.token
  /\ loads' = loads \ {load}
  /\ SetLists(load, agenda)
  /\ isLoading' = FALSE
  /\ UNCHANGED <<started, token, loadError>>

(* One of the three failed, or could not be read.                          *)
LoadFails(load) ==
  /\ load \in loads
  /\ loads' = loads \ {load}
  /\ loadError' = TRUE
  /\ isLoading' = FALSE
  /\ UNCHANGED <<started, token, companies, appointments>>

LoadEnds(load) == LoadFails(load) \/ \E agenda \in Agendas : LoadSucceeds(load, agenda)

-----------------------------------------------------------------------------

(* The types of the hook's state.                                          *)
CompanyTypeOK ==
  /\ loads \subseteq [n : 1..MaxLoads, token : BOOLEAN]
  /\ started \in 1..MaxLoads
  /\ token \in BOOLEAN
  /\ companies \in 0..MaxLoads
  /\ appointments \in Agendas
  /\ isLoading \in BOOLEAN
  /\ loadError \in BOOLEAN

(* An empty desk without a spinner and without an error means that a load  *)
(* has really been answered: the end of the load that was started before   *)
(* the login never hides that the one after it has failed or is missing.   *)
QuietMeansLoaded == ~isLoading /\ ~loadError => companies # 0

(* The spinner has a load behind it.                                       *)
SpinnerHasLoad == isLoading => loads # {}
=============================================================================
