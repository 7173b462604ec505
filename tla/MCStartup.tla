----------------------------- MODULE MCStartup ------------------------------
EXTENDS Startup

MCLocations == <<"AA_CONFIG_PATH", "home">>

\* Two families of histories, to keep them from multiplying: brokers that
\* meet over the key file and the tables when awrit init is done with, and
\* brokers that find a key and the tables while awrit init runs.
FirstStart ==
  /\ keyfile = NoFile
  /\ failures = 0
  /\ schema # Old \cup {Column}
  /\ \A i \in Inits : run[i].step = "failed"
  /\ \A l \in Paths : config[l] = Regular(TRUE, "old")

AllServe == [b \in Brokers |-> Veteran("strong")]

LaterStart ==
  /\ keyfile # NoFile /\ signed \cup retired = Keys
  /\ schema = Old \cup {Column}
  /\ config["home"] \in {Absent, Regular(TRUE, "old")}
  /\ \E b \in Brokers : broker = [AllServe EXCEPT ![b] = Down]
  /\ \/ failures = Failures /\ \A i \in Inits : run[i].step = "idle"
     \/ failures = Failures - 1 /\ run[CHOOSE i \in Inits : TRUE].step = "failed"

MCInit == Init /\ (FirstStart \/ LaterStart)

MCSpec == MCInit /\ [][Next]_vars /\ Fairness
=============================================================================
