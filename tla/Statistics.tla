------------------------------ MODULE Statistics ------------------------------
(***************************************************************************)
(* The statistics of the monitoring page (api/monitor.py), as functions of *)
(* what their queries read.  A snapshot makes its queries one after the    *)
(* other and in no transaction, so each operator takes the table as its    *)
(* own query finds it.                                                     *)
(*                                                                         *)
(* Times are seconds after the start of some day, UTC, None for a column   *)
(* that is NULL or does not parse, and durations are seconds too.          *)
(* Percentiles are in hundredths of a second; a mean is its sum and count. *)
(* A job is [status, package, provider, path, errors, created, started,    *)
(* finished, updated]: path is the provider its artifact_path names,       *)
(* errors the objects in provider_errors, each [provider, error].          *)
(***************************************************************************)
EXTENDS Lists

CONSTANTS
    DaySeconds,     \* seconds of a day
    RecentLimit,    \* MonitorService.recent_limit
    ActiveLimit     \* MonitorService.active_limit

Status   == {"queued", "running", "succeeded", "failed"}
Terminal == {"succeeded", "failed"}

\* The upper edges of _DURATION_BUCKETS but the last, which is open.
BucketEdges == <<5, 15, 30, 60, 180, 600>>

\* _ms: a negative difference, of clocks that disagree, is none.
Ms(start, end) ==
    IF None \in {start, end} THEN None
    ELSE IF end >= start THEN end - start ELSE None

\* _hit_provider and _provider_from_artifact
HitProvider(job) == Either(job.provider, job.path)

-----------------------------------------------------------------------------
(***************************************************************************)
(* The overview and the board of jobs                                      *)
(***************************************************************************)
\* _overview: versions are [package, loadable], states [owner, lease].
Overview(versions, jobs, states, now) ==
    LET loadable == CountOf(versions, LAMBDA v : v.loadable)
    IN [packages      |-> Cardinality({v.package : v \in Range(versions)}),
        loadable      |-> loadable,
        knownOnly     |-> Len(versions) - loadable,
        jobs          |-> [s \in Status |->
                              CountOf(jobs, LAMBDA j : j.status = s)],
        collectingNow |-> CountOf(states, LAMBDA c :
                              /\ c.owner # None
                              /\ c.lease = None \/ c.lease > now)]

\* _job_to_dict
JobView(job, now) ==
    [job     |-> job,
     hit     |-> HitProvider(job),
     waited  |-> Ms(job.created, job.started),
     loaded  |-> Ms(job.started, job.finished),
     elapsed |-> CASE job.status = "running" ->
                         Ms(Either(job.started, job.created), now)
                   [] job.status = "queued" -> Ms(job.created, now)
                   [] OTHER -> Ms(job.created, job.finished)]

\* SELECT * ... WHERE status = ? ORDER BY ... LIMIT ?
Query(jobs, status, Before(_, _), limit) ==
    LET found == Sorted(Selected(jobs, LAMBDA j : j.status = status), Before)
    IN SubSeq(found, 1, IF Len(found) < limit THEN Len(found) ELSE limit)

LastFinished(j, k) == \/ j.finished > k.finished
                      \/ j.finished = k.finished /\ j.updated > k.updated

\* _tasks
Tasks(jobs, now) ==
    LET View(found) == Each(found, LAMBDA j : JobView(j, now))
    IN [running   |-> View(Query(jobs, "running",
                           LAMBDA j, k : j.started < k.started, ActiveLimit)),
        queued    |-> View(Query(jobs, "queued",
                           LAMBDA j, k : j.created < k.created, ActiveLimit)),
        failed    |-> View(Query(jobs, "failed", LastFinished, RecentLimit)),
        succeeded |-> View(Query(jobs, "succeeded", LastFinished,
                                 RecentLimit))]

-----------------------------------------------------------------------------
(***************************************************************************)
(* The analytics of the last days                                          *)
(***************************************************************************)
Day(time) == time \div DaySeconds

\* Mutation: the window is days times 24 hours long, as it once was.
CutoffRolling(now, days) == now - days * DaySeconds

\* The start of the first of the last days.
Cutoff(now, days) == (Day(now) - (days - 1)) * DaySeconds

\* _window_jobs
WindowJobs(jobs, now, days) ==
    Selected(jobs, LAMBDA j : j.created >= Cutoff(now, days))

Ended(jobs) == Selected(jobs, LAMBDA j : j.status \in Terminal)
Tally(jobs) ==
    [total     |-> Len(jobs),
     succeeded |-> CountOf(jobs, LAMBDA j : j.status = "succeeded"),
     failed    |-> CountOf(jobs, LAMBDA j : j.status = "failed")]

\* The durations of the downloads that succeeded, if both times are known.
Durations(jobs) ==
    Selected(Each(Selected(jobs, LAMBDA j : j.status = "succeeded"),
                     LAMBDA j : Ms(j.started, j.finished)),
              LAMBDA d : d # None)

Ascending(numbers) == Sorted(numbers, LAMBDA a, b : a < b)

\* Mutation: the weights of the two neighbours are swapped.
PercentileSwapped(sorted, percent) ==
    LET rank == (Len(sorted) - 1) * percent
        low  == rank \div 100 + 1
        part == rank % 100
    IN IF sorted = <<>> THEN None
       ELSE IF part = 0 THEN 100 * sorted[low]
       ELSE part * sorted[low] + (100 - part) * sorted[low + 1]

\* _percentile: linear between the two ranks around it.
Percentile(sorted, percent) ==
    LET rank == (Len(sorted) - 1) * percent
        low  == rank \div 100 + 1
        part == rank % 100
    IN IF sorted = <<>> THEN None
       ELSE IF part = 0 THEN 100 * sorted[low]
       ELSE (100 - part) * sorted[low] + part * sorted[low + 1]

Mean(numbers) == IF numbers = <<>> THEN None
                 ELSE [sum |-> SumOf(numbers), count |-> Len(numbers)]

\* The bucket of a duration: the first whose edge is above it.
Bucket(d) == LET i == SelectInSeq(BucketEdges, LAMBDA edge : d < edge)
             IN IF i = 0 THEN Len(BucketEdges) + 1 ELSE i

\* _duration_stats
DurationStats(durations) ==
    LET ordered == Ascending(durations)
    IN [count     |-> Len(ordered),
        mean      |-> Mean(ordered),
        p50       |-> Percentile(ordered, 50),
        p90       |-> Percentile(ordered, 90),
        p95       |-> Percentile(ordered, 95),
        max       |-> IF ordered = <<>> THEN None ELSE ordered[Len(ordered)],
        histogram |-> [b \in 1..(Len(BucketEdges) + 1) |->
                          CountOf(durations, LAMBDA d : Bucket(d) = b)]]

\* _daily_series: the last days, oldest first; a job of another day is dropped.
DailySeries(ended, now, days) ==
    [i \in 1..days |->
        Tally(Selected(ended, LAMBDA j : Day(j.created) = Day(now) - days + i))]

\* _per_package_stats
PerPackageStats(jobs) ==
    LET OfPackage(p) == Selected(Ended(jobs), LAMBDA j : j.package = p)
        Entry(p) == [package |-> p, tally |-> Tally(OfPackage(p)),
                     mean |-> Mean(Ascending(Durations(OfPackage(p)))),
                     p95  |-> Percentile(Ascending(Durations(OfPackage(p))), 95)]
    IN Sorted(SetToSeq({Entry(j.package) : j \in Range(Ended(jobs))}),
               LAMBDA e, f : e.tally.total > f.tally.total)

\* _analytics
Analytics(jobs, now, days) ==
    [totals     |-> Tally(Ended(jobs)),
     daily      |-> DailySeries(Ended(jobs), now, days),
     duration   |-> DurationStats(Durations(jobs)),
     perPackage |-> PerPackageStats(jobs)]

\* _providers: a job succeeded with one provider and failed with several.
Providers(jobs) ==
    LET hits == Selected(Each(Selected(jobs, LAMBDA j : j.status = "succeeded"),
                              HitProvider),
                         LAMBDA p : p # None)
        failed == Selected(jobs, LAMBDA j : j.status = "failed")
        misses == UNION {{<<i, k>> : k \in DOMAIN failed[i].errors} :
                         i \in DOMAIN failed}
        Name(m) == Either(failed[m[1]].errors[m[2]].provider, "unknown")
        Error(m) == Either(failed[m[1]].errors[m[2]].error, "UNKNOWN")
        Of(p) == {m \in misses : Name(m) = p}
        Entry(p) == [provider  |-> p,
                     successes |-> CountOf(hits, LAMBDA h : h = p),
                     failures  |-> Cardinality(Of(p)),
                     errors    |-> [c \in {Error(m) : m \in Of(p)} |->
                                       Cardinality({m \in Of(p) : Error(m) = c})]]
        names == Range(hits) \cup {Name(m) : m \in misses}
    IN Sorted(SetToSeq({Entry(p) : p \in names}),
              LAMBDA e, f : e.successes + e.failures > f.successes + f.failures)
===============================================================================
