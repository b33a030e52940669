----------------------------- MODULE MCRunnerd ------------------------------
(* Runnerd for TLC: the .cfg files choose jobs, pipes, cancels and faults.    *)
EXTENDS Runnerd

OnePipe == {"kStartupError"}
TwoPipes == {"kStdout", "kStartupError"}
ThreePipes == {"kStdout", "kStderr", "kStartupError"}

WaitingJobs == JobId \X {"QUEUED"}
RunningJobs == JobId \X {"RUNNING"}
AllJobs == WaitingJobs \cup RunningJobs
WaitingJobsAndTheFirst == WaitingJobs \cup {<<1, "RUNNING">>}
=============================================================================
