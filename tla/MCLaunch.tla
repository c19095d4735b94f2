------------------------------- MODULE MCLaunch -------------------------------
(* Instances of Launch for TLC. *)
EXTENDS Launch

CONSTANTS p1, p2, s1, s2, t1, t2

TwoProcs == {p1, p2}
OneSession == {s1}
TwoSessions == {s1, s2}
NoTaps == {}
TwoTaps == {t1, t2}

LaunchesOf(mode, flags) == [mode : {mode}, session : Sessions, flags : flags]

\* Every mode, and every flag where it makes a difference.
AllLaunches ==
    LaunchesOf("station", {{}, {"windowed"}, {"dev-exit", "sim"}})
    \cup LaunchesOf("quit", {{}}) \cup LaunchesOf("conformance", {{}, {"dev-exit", "sim"}})
    \cup LaunchesOf("spike", {{}}) \cup LaunchesOf("exit_probe", {{}})

Service == LaunchesOf("station", {{}, {"dev-exit"}}) \cup LaunchesOf("quit", {{}})
Stations == LaunchesOf("station", {{}})
StationsAndGates == Stations \cup LaunchesOf("conformance", {{}})
=============================================================================
