-------------------------- MODULE MCModelDownloads --------------------------
(* ModelDownloads with a model of each layout.                                *)
EXTENDS ModelDownloads

CONSTANTS esrgan, flux

MCModels == {esrgan, flux}
MCInPlace == {flux}
MCSeedable == {esrgan}
=============================================================================
