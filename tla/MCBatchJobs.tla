---------------------------- MODULE MCBatchJobs ----------------------------
(* One API process with two pooled connections and one command-line process. *)
EXTENDS BatchJobs

MCServer == {"api"}
MCCli == {"cron"}
MCConn == {"api1", "api2", "cron1"}
MCOwnerOf == [c \in MCConn |-> IF c = "cron1" THEN "cron" ELSE "api"]
=============================================================================
