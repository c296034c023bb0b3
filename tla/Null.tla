--------------------------------- MODULE Null ---------------------------------
\* The null of a column, a field or a variable: no row, no url, no id.
CONSTANT None
===============================================================================
