----------------------------- MODULE MCShellCache ----------------------------
\* Small instances of ShellCache for TLC: the page, which a pairing link falls back
\* to, and a vendored file.
EXTENDS ShellCache

CONSTANTS root, link, xterm

Pages == {root, link}
JustLink == {link}
JustXterm == {xterm}

\* The page is installed, and opened by a pairing link and without one, by two requests
\* of a load that asks for the vendored file too.
FourRequests == {<<0, root>>, <<1, link>>, <<1, root>>, <<1, xterm>>}
=============================================================================
