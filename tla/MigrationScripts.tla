---------------------------- MODULE MigrationScripts ----------------------------
(***************************************************************************)
(* The migration scripts of the control-plane database and what SQLite     *)
(* does with each of their statements.                                     *)
(*                                                                         *)
(* The schema is a set of pairs: <<t, "">> is the table t and <<t, x>> an   *)
(* index or an added column x of t.  Columns a CREATE TABLE lists are left *)
(* out.  Of the rows only those that a script moves or rewrites are kept.  *)
(***************************************************************************)
EXTENDS Naturals, Sequences, SequencesExt

-----------------------------------------------------------------------------
(* Statements *)

Stmt(op, t, x) == [op |-> op, t |-> t, x |-> x]

Table(t) == <<Stmt("create", t, "")>>
TableIf(t) == <<Stmt("createIf", t, "")>>

Each(op, t, xs) == [i \in 1..Len(xs) |-> Stmt(op, t, xs[i])]

Columns(t, xs) == Each("add", t, xs)
Indexes(t, xs) == Each("create", t, xs)
IndexesIf(t, xs) == Each("createIf", t, xs)
Rows(what) == <<Stmt("rows", "", what)>>

schemaV1 ==
    TableIf("connections") \o IndexesIf("connections", <<"name">>) \o TableIf("jobs")
    \o TableIf("runs") \o IndexesIf("runs", <<"job_started">>)
    \o TableIf("tasks") \o IndexesIf("tasks", <<"run_task_index", "run_status">>)
    \o TableIf("events") \o IndexesIf("events", <<"run_ts">>) \o TableIf("hwm")
    \o TableIf("workers") \o IndexesIf("workers", <<"heartbeat">>)

schemaV2 ==
    Columns("runs", <<"dataset_key">>)
    \o IndexesIf("runs", <<"status_started", "dataset_active">>)
    \o IndexesIf("tasks", <<"status_run_task">>)

schemaV3 == TableIf("audit_log") \o IndexesIf("audit_log", <<"ts", "resource", "action_ts">>)

schemaV4 == Columns("runs", <<"registration_config_json">>)

schemaV6 ==
    TableIf("servers") \o IndexesIf("servers", <<"server_name", "host_port">>)
    \o TableIf("server_credentials") \o IndexesIf("server_credentials", <<"server_id">>)
    \o TableIf("command_executions")
    \o IndexesIf("command_executions", <<"exec_server", "exec_status">>)
    \o TableIf("deployments") \o IndexesIf("deployments", <<"deploy_server", "deploy_status">>)
    \o TableIf("config_versions")
    \o IndexesIf("config_versions", <<"config_version", "config_created">>)

\* The index on active runs is made again, now over COMMITTING runs as well.
schemaV7 ==
    Columns("runs", <<"commit_id", "commit_intent_json", "commit_phase">>)
    \o <<Stmt("dropIndexIf", "runs", "dataset_active")>>
    \o Indexes("runs", <<"dataset_active">>)

schemaV8 ==
    Columns("tasks", <<"current_attempt_id", "attempt_count", "next_eligible_at">>)
    \o Table("task_attempts") \o Indexes("task_attempts", <<"one_active", "attempt_expiry">>)
    \o Indexes("tasks", <<"retry_eligible">>) \o Rows("recoverTasks")

schemaV9 == Table("task_artifacts") \o Indexes("task_artifacts", <<"by_task", "by_attempt">>)

\* Mutant: The old table is dropped before its rows are copied.
DropBeforeCopy ==
    <<Stmt("rename", "task_artifacts", "task_artifacts_v9")>> \o Table("task_artifacts")
    \o <<Stmt("dropTable", "task_artifacts_v9", "")>> \o Rows("copyArtifacts")
    \o Indexes("task_artifacts", <<"by_task", "by_attempt">>)

schemaV10 ==
    <<Stmt("rename", "task_artifacts", "task_artifacts_v9")>> \o Table("task_artifacts")
    \o Rows("copyArtifacts") \o <<Stmt("dropTable", "task_artifacts_v9", "")>>
    \o Indexes("task_artifacts", <<"by_task", "by_attempt">>)

schemaV11 ==
    Table("iceberg_registrations") \o Table("iceberg_registration_attempts")
    \o Indexes("iceberg_registration_attempts", <<"reg_one_active">>)
    \o Indexes("iceberg_registrations", <<"reg_one_dataset", "reg_eligible", "reg_order">>)
    \o Indexes("iceberg_registration_attempts", <<"reg_expiry">>)

schemaV12 ==
    Columns("iceberg_registrations",
            <<"recon_status", "recon_count", "recon_attempt", "recon_outcome", "recon_error",
              "recon_next", "observed_snapshot", "observed_metadata", "matched_files",
              "expected_files", "recon_digest", "ambiguity_retries">>)
    \o Table("iceberg_reconciliation_attempts")
    \o Indexes("iceberg_reconciliation_attempts", <<"recon_one_active", "recon_expiry">>)
    \o Indexes("iceberg_registrations", <<"recon_eligible">>) \o Rows("queueReconciliation")

schemaV13 ==
    Table("master_leadership") \o Rows("addLeadershipRow") \o Table("master_leadership_history")
    \o Indexes("master_leadership_history", <<"history_epoch">>)
    \o Columns("iceberg_registration_attempts", <<"leader_epoch">>)
    \o Columns("iceberg_reconciliation_attempts", <<"leader_epoch">>)
    \o Columns("task_attempts", <<"assigned_by_leader_epoch">>)

schemaV14 ==
    Table("multipart_uploads") \o Indexes("multipart_uploads", <<"mp_eligible", "mp_attempt">>)

schemaV15 ==
    Table("canceled_object_candidates") \o Table("canceled_object_cleanup_attempts")
    \o Indexes("canceled_object_cleanup_attempts", <<"cleanup_one_active">>)
    \o Indexes("canceled_object_candidates", <<"cleanup_eligible">>)

schemaV16 == Rows("queueReconciliation")

schemaV17 == TableIf("upload_capacity_leases") \o IndexesIf("upload_capacity_leases", <<"capacity_active">>)

schemaV18 == Columns("runs", <<"failure_class">>)

schemaV19 ==
    TableIf("worker_instances") \o IndexesIf("worker_instances", <<"instance_worker">>)
    \o Columns("task_attempts", <<"worker_boot_id">>)

schemaV20 ==
    Columns("runs", <<"commit_recon_status", "commit_recon_count", "commit_recon_next",
                      "operator_action_required">>)
    \o IndexesIf("runs", <<"commit_recon_eligible">>)

schemaV21 == Columns("iceberg_registrations", <<"retry_override_config_json">>)

schemaV22 == Columns("iceberg_registrations", <<"manual_retry_budget">>)

schemaV23 == Columns("runs", <<"type_warnings_json">>)

schemaV24 ==
    TableIf("worker_ca") \o TableIf("worker_identities")
    \o IndexesIf("worker_identities", <<"pool_status">>) \o TableIf("worker_enrollment_tokens")

schemaV25 == Columns("runs", <<"commit_claim_token", "commit_claim_expires_at">>)

schemaV26 == Columns("task_artifacts", <<"provider_checksum_sha256">>)

schemaV27 == Columns("runs", <<"config_snapshot_json">>)

schemaV29 == Columns("runs", <<"failure_phase">>)

schemaV30 == IndexesIf("jobs", <<"name_created">>)

schemaV31 == Rows("overwriteFull") \o Rows("appendIncremental") \o Rows("spellOverwrite")

schemaV32 == Columns("tasks", <<"hwm_boundary_json">>)

schemaV33 == TableIf("source_reconciliations")

schemaV34 ==
    Table("maintenance_operations")
    \o Indexes("maintenance_operations", <<"maint_one_active", "maint_status", "maint_run">>)
    \o Table("maintenance_candidates")

schemaV35 == TableIf("api_credentials") \o Columns("audit_log", <<"principal", "credential_id">>)

schemaV36 == IndexesIf("events", <<"events_ts", "events_task">>)

\* Version 5 looks for the column before it adds it.
ensureRunRegistrationConfigColumn == <<Stmt("addIf", "runs", "registration_config_json")>>

\* Version 28 rewrites the timestamps of every table in one transaction.
normalizeStoredTimestamps == Rows("normalizeTimestamps")

migrations ==
    <<schemaV1, schemaV2, schemaV3, schemaV4, ensureRunRegistrationConfigColumn, schemaV6,
      schemaV7, schemaV8, schemaV9, schemaV10, schemaV11, schemaV12, schemaV13, schemaV14,
      schemaV15, schemaV16, schemaV17, schemaV18, schemaV19, schemaV20, schemaV21, schemaV22,
      schemaV23, schemaV24, schemaV25, schemaV26, schemaV27, normalizeStoredTimestamps,
      schemaV29, schemaV30, schemaV31, schemaV32, schemaV33, schemaV34, schemaV35, schemaV36>>

Versions == 1..Len(migrations)

-----------------------------------------------------------------------------
(* What SQLite does with one statement *)

\* Index names are global, column names belong to their table.
Exists(h, s) ==
    IF s.op \in {"create", "createIf"} /\ s.x # ""
    THEN \E p \in h : p[2] = s.x
    ELSE <<s.t, s.x>> \in h

\* The error of a statement: the object exists already or its table does not.
Refused(h, s) ==
    CASE s.op \in {"create", "add"} -> Exists(h, s) \/ (s.x # "" /\ <<s.t, "">> \notin h)
      [] s.op = "rename" -> <<s.t, "">> \notin h \/ <<s.x, "">> \in h
      [] s.op = "dropTable" -> <<s.t, "">> \notin h
      [] OTHER -> FALSE

\* Renaming a table takes its indexes along and dropping it drops them.
Schema(h, s) ==
    CASE s.op \in {"create", "createIf", "add", "addIf"} ->
           IF Exists(h, s) THEN h ELSE h \cup {<<s.t, s.x>>}
      [] s.op = "dropIndexIf" -> {p \in h : p[2] # s.x}
      [] s.op = "rename" -> {IF p[1] = s.t THEN <<s.x, p[2]>> ELSE p : p \in h}
      [] s.op = "dropTable" -> {p \in h : p[1] # s.t}
      [] OTHER -> h

\* The rows: where the artifact row is, the status of a task, whether a
\* RECONCILING registration is queued, how the job writes, how a timestamp is
\* stored and the number of leadership rows.
Data(d, s) ==
    CASE s.op = "rename" -> [d EXCEPT !.artifact = {s.x : t \in @}]
      [] s.op = "dropTable" -> [d EXCEPT !.artifact = @ \ {s.t}]
      [] s.x = "copyArtifacts" /\ "task_artifacts_v9" \in d.artifact ->
           [d EXCEPT !.artifact = @ \cup {"task_artifacts"}]
      [] s.x = "recoverTasks" /\ d.task = "RUNNING" -> [d EXCEPT !.task = "PENDING"]
      [] s.x = "queueReconciliation" /\ d.reconciling = "" -> [d EXCEPT !.reconciling = "PENDING"]
      [] s.x = "addLeadershipRow" -> [d EXCEPT !.leaders = @ + 1]
      [] s.x = "overwriteFull" /\ ~d.incremental -> [d EXCEPT !.mode = "overwrite"]
      [] s.x = "appendIncremental" /\ d.incremental /\ d.mode \notin {"overwrite", "OVERWRITE"} ->
           [d EXCEPT !.mode = "append"]
      [] s.x = "spellOverwrite" /\ d.incremental /\ d.mode = "OVERWRITE" ->
           [d EXCEPT !.mode = "overwrite"]
      [] s.x = "normalizeTimestamps" -> [d EXCEPT !.timestamp = "fixed"]
      [] OTHER -> d

\* The schema at a version: every object that a script up to it creates.  The
\* table that version 10 moves aside is gone again at its end.
SchemaOf(n) ==
    {<<s.t, s.x>> : s \in {s \in UNION {Range(migrations[v]) : v \in 1..n} :
                              s.op \in {"create", "createIf", "add", "addIf"}}}
=============================================================================
