---------------------------- MODULE MCBugReporter ----------------------------
\* BugReporter on a small instance: two goroutines that meet one error.
EXTENDS BugReporter
=============================================================================
