-------------------------- MODULE MCReadOnlySmoke --------------------------
(* The read-only smoke over its stream; or the stream alone, its operations *)
(* called in any order; or one of the probes over its session, and, for     *)
(* Gate 09, over the stream.  A behaviour is of one of the three.           *)
EXTENDS ReadOnlySmoke, ReadOnlySession, TLC

CONSTANTS eurusd, us500, xauusd

MCClockMarkets == <<eurusd, xauusd, us500>>

allVars == <<vars, sessionVars>>

MCInit ==
    /\ Init
    /\ \/ ProbeInit("off") /\ probe.kind = "gate09"
       \/ /\ phase = "off"
          /\ rest.left["market"] = Cardinality(Epics)
          /\ rest.left["history"] = Cardinality(Representatives)
          /\ ProbeInit("preflight")

ProbeOff == probe.at = "off"

MCNext ==
    \/ ProbeOff /\ Next /\ UNCHANGED sessionVars
    \/ ~ProbeOff /\ SessionNext /\ UNCHANGED smokeVars

MCFairSpec ==
    /\ MCInit /\ [][MCNext]_allVars
    /\ WF_allVars(/\ ProbeOff /\ UNCHANGED sessionVars
                  /\ SmokeSteps \/ (CallerSteps /\ UNCHANGED smokeVars))
=============================================================================
