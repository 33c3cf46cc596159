------------------------------ MODULE MCWatch ------------------------------
(* Three operations that log, two sites, a site with its workers, disk and *)
(* jobs, and two requests to the Redis page beside the monitor's pass.      *)
EXTENDS Watch

CONSTANTS site, replica, gauge, job, web, docs

\* The second site's slug is the first's, a hyphen, and more.
Slugs == {<<web, docs>>}

Installations == {{site, replica}, {replica, gauge}, {site, job}}
=============================================================================
