SPECIFICATION FairSpec
CONSTANTS
    Writer = {l1, l2, l3}
    MaxLines = 1
    MaxBuffered = 2
    MaxSeq = 4
    NoLine = NoLine
    Site = {web, docs}
    Camera = {k1}
    web = web
    docs = docs
    Under <- Slugs
    MaxAsks = 3
    MaxFiles = 3
    MaxDeaths = 1
    site = site
    replica = replica
    gauge = gauge
    job = job
    Probed = {site}
    Started = {replica}
    Gauge = {gauge}
    Job = {job}
    Strikes = 2
    Scenes <- Installations
    MaxTrouble = 2
    Clerk = {c1, c2}
    Pass = monitor
    Size = {small, big}
    NoRedis = NoRedis
    MaxClicks = 3
    MaxUpsets = 1
INVARIANTS TypeOK LogKept PasswordKept
PROPERTIES RequestsEnd AlarmsAreTrue RedisConverges
CHECK_DEADLOCK FALSE
