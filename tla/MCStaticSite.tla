---------------------------- MODULE MCStaticSite ----------------------------
(* Two visitors of a site with the URLs /page and /page.html, that is the   *)
(* paths page, page/index.html and page.html.                               *)
EXTENDS StaticSite, TLC

CONSTANTS v1, v2, page, page_html, dir, index, html, none

MCUrl == v1 :> page @@ v2 :> page_html
MCDirect == page :> dir @@ page_html :> html
MCIndex == page :> index @@ page_html :> none
MCHtml == page :> html @@ page_html :> none

\* An index page too large for the cache; a file page from before 1970.
MCBig == {<<index, 1>>}
MCUndated == {<<dir, 1>>}
=============================================================================
