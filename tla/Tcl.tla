-------------------------------- MODULE Tcl --------------------------------
(***************************************************************************)
(* Transaction control: the nodes that tx.begin, tx.commit, tx.rollback,   *)
(* tx.savepoint and tx.setTransaction make (src/src/ns/tx.ts) and the SQL  *)
(* that TclPrinter prints for them.  Every option is one clause; the       *)
(* isolation level SNAPSHOT, which one dialect has, is told apart.         *)
(***************************************************************************)
LOCAL INSTANCE Clauses

LOCAL Isolation == {"isolation", "SNAPSHOT"}

TclNodes ==
    [tcl_begin             |-> Isolation \cup {"access", "deferrable", "consistentSnapshot", "locking"},
     tcl_commit            |-> {"andChain"},
     tcl_rollback          |-> {"andChain", "toSavepoint"},
     tcl_savepoint         |-> {"name"},
     tcl_release_savepoint |-> {"name"},
     tcl_set_transaction   |-> Isolation \cup {"access"}]

LOCAL Options(clauses) == {node \in SUBSET clauses : ~(Isolation \subseteq node)}

\* Each of them takes all its options at once.
TclBuilders ==
    [tcl_begin             |-> Builder(Options(TclNodes.tcl_begin), {}),
     tcl_commit            |-> Builder(Options(TclNodes.tcl_commit), {}),
     tcl_rollback          |-> Builder({{}, {"andChain"}, {"toSavepoint"}}, {}),
     tcl_savepoint         |-> Builder({{"name"}}, {}),
     tcl_release_savepoint |-> Builder({{"name"}}, {}),
     tcl_set_transaction   |-> Builder(Options(TclNodes.tcl_set_transaction), {})]

\* SQLite's locking mode returns before the isolation level is looked at.
PrintBegin(node, dialect) ==
    CASE dialect = "sqlite" /\ "locking" \in node -> <<"locking">>
      [] dialect = "pg" -> InOrder(<<"isolation", "SNAPSHOT", "access", "deferrable">>, node)
      [] dialect = "mysql" -> Checked(node \cap Isolation = {}, InOrder(<<"consistentSnapshot", "access">>, node))
      [] OTHER -> Checked(node \cap Isolation = {}, <<>>)

PrintSetTransaction(node, dialect) ==
    Checked("SNAPSHOT" \in node => dialect = "mssql", InOrder(<<"isolation", "SNAPSHOT", "access">>, node))

PrintTclStatement(kind, node, dialect) ==
    CASE kind = "tcl_begin"  -> PrintBegin(node, dialect)
      [] kind = "tcl_commit" -> Checked("andChain" \in node => dialect \in {"pg", "mysql"}, InOrder(<<"andChain">>, node))
      [] kind = "tcl_rollback" ->
            Checked("andChain" \in node /\ "toSavepoint" \notin node => dialect \in {"pg", "mysql"},
                    IF "toSavepoint" \in node THEN <<"toSavepoint">> ELSE InOrder(<<"andChain">>, node))
      [] kind = "tcl_savepoint" -> <<"name">>
      [] kind = "tcl_release_savepoint" -> Checked(dialect # "mssql", <<"name">>)
      [] kind = "tcl_set_transaction"   -> PrintSetTransaction(node, dialect)

=============================================================================
