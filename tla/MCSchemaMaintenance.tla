------------------------ MODULE MCSchemaMaintenance ------------------------
(* Small instances of SchemaMaintenance; the constants are in the cfg.      *)
EXTENDS SchemaMaintenance
=============================================================================
