---------------------------- MODULE MCAppLifecycle ----------------------------
(* Instances of AppLifecycle for TLC; every constant is given by the cfg.  *)
EXTENDS AppLifecycle
===============================================================================
