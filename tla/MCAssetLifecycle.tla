-------------------------- MODULE MCAssetLifecycle --------------------------
(* Small instances of AssetLifecycle for TLC.                              *)
EXTENDS AssetLifecycle, TLC
=============================================================================
