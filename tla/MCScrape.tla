------------------------------ MODULE MCScrape ------------------------------
(* A small instance of Scrape: one exporter, scraped and restarted.        *)
EXTENDS Scrape, MCExporter

FairSpec == ScrapeSpec /\ Fairness

\* A bound on the environment: the exporter is scraped only as long as none but
\* the first satellite has sent readings.  (Arrivals and scrapes are not fair, so
\* that a bound on them makes no liveness property hold.)
ScrapedAlone ==
  \/ \A r \in arrived : r.sat = s1
  \/ \A w \in Exporters : family[w] = "none" /\ told[w] = Blank
=============================================================================
