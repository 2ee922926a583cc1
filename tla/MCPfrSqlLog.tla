---------------------------- MODULE MCPfrSqlLog ----------------------------
(***************************************************************************)
(* Small instances of PfrSqlLog, and what the configuration file says of   *)
(* enable_sql_log.                                                         *)
(***************************************************************************)
EXTENDS PfrSqlLog

\* No answer, two peers of which the first is better, one peer.  The configured 3 lies
\* above the metrics of the second and not above that of the third.
MCReplies == {<<>>, <<1, 2>>, <<3>>}

\* pfrd.conf: "# log to sql", above enable_sql_log = on.  With the switch off, no
\* row is written.
OffMeansNoRows == ~EnableSqlLog => table = {}
=============================================================================
