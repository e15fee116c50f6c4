------------------------------- MODULE Scrape -------------------------------
(***************************************************************************)
(* The scrape endpoint of the observability service, composed with its     *)
(* export: a scrape runs in a thread of the HTTP server and collects the   *)
(* registry family by family, in the order of their declaration, and each  *)
(* family series by series, while Exporter goes on assigning.  The server  *)
(* and the collection are prometheus_client's.  The counter and the score  *)
(* are collected too; nothing is said of them here.                        *)
(***************************************************************************)
EXTENDS Exporter

VARIABLES
  family,  \* what the scrape of each process is collecting
  left,    \* the series of that family it has yet to read
  values,  \* what this scrape has read of TELEMETRY_METRIC
  times,   \* what this scrape has read of LAST_READING_TIMESTAMP
  told     \* history: the timestamps of the scrape before it

scrape == <<family, left, values, times, told>>

NoValues == [k \in Series |-> None]

ScrapeTypeOK ==
  /\ family \in [Exporters -> {"none", "metrics", "stamps"}]
  /\ left \in [Exporters -> SUBSET (Series \cup Sats)]
  /\ values \in [Exporters -> [Series -> Reading0]]
  /\ times \in [Exporters -> [Sats -> Reading0]]
  /\ told \in [Exporters -> [Sats -> Reading0]]

ScrapeInit ==
  /\ Init
  /\ family = [w \in Exporters |-> "none"]
  /\ left = [w \in Exporters |-> {}]
  /\ values = [w \in Exporters |-> NoValues]
  /\ times = [w \in Exporters |-> Blank]
  /\ told = [w \in Exporters |-> Blank]

\* A family copies its table of series before it reads them.  One that `labels`
\* has made and `set` has not reached yet reads as 0, which is None here.
Request(w) ==
  /\ serving[w]
  /\ family[w] = "none"
  /\ family' = [family EXCEPT ![w] = "metrics"]
  /\ left' = [left EXCEPT ![w] = { k \in Series : gauge[w][k] # None }]
  /\ UNCHANGED <<values, times, told>>

ReadMetric(w) ==
  /\ family[w] = "metrics"
  /\ \E k \in left[w] :
       /\ values' = [values EXCEPT ![w][k] = gauge[w][k]]
       /\ left' = [left EXCEPT ![w] = @ \ {k}]
  /\ UNCHANGED <<family, times, told>>

NextFamily(w) ==
  /\ family[w] = "metrics"
  /\ left[w] = {}
  /\ family' = [family EXCEPT ![w] = "stamps"]
  /\ left' = [left EXCEPT ![w] = { s \in Sats : stamp[w][s] # None }]
  /\ UNCHANGED <<values, times, told>>

ReadStamp(w) ==
  /\ family[w] = "stamps"
  /\ \E s \in left[w] :
       /\ times' = [times EXCEPT ![w][s] = stamp[w][s]]
       /\ left' = [left EXCEPT ![w] = @ \ {s}]
  /\ UNCHANGED <<family, values, told>>

\* The response is sent.
Respond(w) ==
  /\ family[w] = "stamps"
  /\ left[w] = {}
  /\ family' = [family EXCEPT ![w] = "none"]
  /\ told' = [told EXCEPT ![w] = times[w]]
  /\ values' = [values EXCEPT ![w] = NoValues]
  /\ times' = [times EXCEPT ![w] = Blank]
  /\ UNCHANGED left

\* A process that ends takes its scrape with it.
CutOff ==
  LET Lasts(f, none) == [ w \in Exporters |-> IF pc'[w] = "down" THEN none ELSE f[w] ]
  IN /\ family' = Lasts(family, "none")
     /\ left' = Lasts(left, {})
     /\ values' = Lasts(values, NoValues)
     /\ times' = Lasts(times, Blank)
     /\ told' = Lasts(told, Blank)

Collect(w) == Request(w) \/ ReadMetric(w) \/ NextFamily(w) \/ ReadStamp(w) \/ Respond(w)

ScrapeNext ==
  \/ \E w \in Exporters : Collect(w) /\ UNCHANGED vars
  \/ Next /\ CutOff

\* One scraper: Prometheus has one request to a target open at a time.
ScrapeSpec == ScrapeInit /\ [][ScrapeNext]_<<vars, scrape>>

-----------------------------------------------------------------------------
(* What must hold.                                                         *)

\* A scrape is no snapshot: metrics are collected before timestamps, so that an
\* export in between shows its timestamp above older values.  That lasts for
\* one scrape: export sets the timestamp last, and the next scrape of the
\* process shows the metrics of every timestamp it has shown, or newer ones.
NextScrapeCatchesUp ==
  \A w \in Exporters, s \in Sats :
    family[w] = "stamps" /\ told[w][s] # None =>
      \A n \in told[w][s].metrics : Time(values[w][<<s, n>>]) >= told[w][s].time
=============================================================================
