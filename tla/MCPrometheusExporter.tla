------------------------ MODULE MCPrometheusExporter ------------------------
(***************************************************************************)
(* The exporter with the two units of its SERVICES list.                   *)
(***************************************************************************)
EXTENDS PrometheusExporter

MCServices == <<"mxrc-rt.service", "mxrc-nonrt.service">>

=============================================================================
