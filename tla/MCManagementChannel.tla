------------------------ MODULE MCManagementChannel ------------------------
(* Small instances of ManagementChannel for TLC. *)
EXTENDS ManagementChannel

\* The first command came from a batch (it may expire earlier), the second is the
\* uninstall.  The Helper's clock lags behind.
MCUninstalls == {2}
MCBatchCommands == {1}
MCCancellable == {1}
MCHelperDrift == {-1}
=============================================================================
