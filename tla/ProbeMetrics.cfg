\* Two recorders and one scrape over two probes.
SPECIFICATION Spec
CONSTANTS
    g1 = g1
    g2 = g2
    s1 = s1
    livez = livez
    tcp = tcp
    Recorder <- Recorders
    Scraper <- Scrapers
    Probe <- Probes
    Nobody = Nobody
    MaxTotal = 1
INVARIANTS
    Exclusive
    NoNilDereference
PROPERTIES
    ImplementsCounters
    RecordReturns
